---- MODULE Spec2Model ----
(***************************************************************************)
(* Data layer of the attendance management application (src/app.py): the   *)
(* SQLite store behind the Flask request handlers.                         *)
(*                                                                         *)
(* One request is one step, but where requests are served at the same     *)
(* time: there a handler that reads before it writes takes two steps.      *)
(* A handler opens its own connection (get_db),                            *)
(* works in the implicit transaction Python's sqlite3 module opens before  *)
(* the first INSERT/UPDATE/DELETE, and close_connection drops whatever     *)
(* was not committed.  The schema never issues PRAGMA foreign_keys = ON,   *)
(* so the FOREIGN KEY ... ON DELETE CASCADE clauses are parsed and not     *)
(* enforced: the store checks NOT NULL, UNIQUE and CHECK only.             *)
(*                                                                         *)
(* Text is a sequence of characters (one-character or one-word strings,    *)
(* " " being whitespace) so that str.strip() is computed, not assumed.     *)
(* Columns no handler branches on (phone, parent_*, description, remarks,  *)
(* exam_date) are left out of the rows; attendance and student_tasks carry *)
(* no id column (it only orders listings) and are bags of rows so that a   *)
(* duplicate row would be visible.                                         *)
(***************************************************************************)
EXTENDS Integers, Sequences, FiniteSets, Bags, TLC

VARIABLES db,       \* the committed content of database.db
          session,  \* the Flask session cookie of the one browser
          last,     \* the last request served and its response
          requests  \* the requests being served, one per thread of the server

vars == <<db, session, last, requests>>

----------------------------------------------------------------------------
(* Bounds of the model *)

MaxStudents == 2      \* student rows ever inserted (AUTOINCREMENT sequence)
MaxTasks == 2         \* task rows ever committed
MaxSubjects == 2      \* subject rows ever inserted
MaxMarks == 2         \* marks rows ever inserted
MaxSelected == 2      \* length of the student_ids list of a reconciliation form
MaxRows == 2          \* length of the lists of a bulk marks form
MaxCreated == 2       \* rows inserted into students, tasks, subjects and marks together
MaxThreads == 2       \* requests served at the same time

----------------------------------------------------------------------------
(* Text helpers *)

WS == " "

RECURSIVE lstrip(_)
lstrip(s) == IF s # <<>> /\ Head(s) = WS THEN lstrip(Tail(s)) ELSE s

RECURSIVE rstrip(_)
rstrip(s) ==
    IF s # <<>> /\ s[Len(s)] = WS THEN rstrip(SubSeq(s, 1, Len(s) - 1)) ELSE s

\* str.strip()
strip(s) == rstrip(lstrip(s))

----------------------------------------------------------------------------
(* The store *)

EmptySession == [k \in {} |-> 0]

\* werkzeug generate_password_hash / check_password_hash: the salted hash is
\* kept abstract, one that only its own password opens.
generate_password_hash(password) == <<"pbkdf2", password>>
check_password_hash(pwhash, password) == pwhash = generate_password_hash(password)

\* init_db on a new database file: every table empty, one admin row seeded.
init_db ==
    [students      |-> {},
     attendance    |-> EmptyBag,
     tasks         |-> {},
     student_tasks |-> EmptyBag,
     subjects      |-> {},
     marks         |-> {},
     admin         |-> {[id |-> 1, username |-> "admin",
                         password_hash |-> generate_password_hash("admin")]},
     seq           |-> [students |-> 0, tasks |-> 0, subjects |-> 0, marks |-> 0],
     \* what migrate_db looks at: the columns of subjects and the unique index
     schema        |-> [course |-> TRUE, semester |-> TRUE, idx_subjects_unique |-> TRUE]]

\* get_db / close_connection: the handler's connection sees the committed
\* content; at teardown the connection is closed and what the handler wrote
\* without a commit after it is rolled back.
close_connection(committed, pending) == committed

\* db.commit()
commit(tx) == tx

\* The outcome of one statement: done, or sqlite3.IntegrityError with the
\* statement backed out (what the transaction held before it stays).
Done(tx) == [ok |-> TRUE, tx |-> tx]
IntegrityError(tx) == [ok |-> FALSE, tx |-> tx]

\* Mutant of login_required: the decorator lets every request through.
NoLoginRequired == TRUE

\* login_required: 'admin_id' in session
login_required == "admin_id" \in DOMAIN session

RedirectLogin(route) ==
    [op |-> "login_required", route |-> route,
     flash |-> {"Please log in to access this page."}]

\* An exception no handler catches: Flask answers 500, nothing was committed.
InternalServerError == {"500 Internal Server Error"}

\* app.run(): the threads of the server, each serving one request at a time.
\* A request that is between two of its statements is kept with what it has
\* read so far; "workload" names the handlers the requests of a run go to.
Threads == 1 .. MaxThreads

Idle == [pc |-> "idle"]

NoRequests == [workload |-> "serial", thread |-> [t \in Threads |-> Idle]]

Init ==
    /\ db = init_db
    /\ session = EmptySession
    /\ last = [op |-> "start", flash |-> {}]
    /\ requests = NoRequests

----------------------------------------------------------------------------
(* Login and logout *)

login(username, password) ==
    LET found == {a \in db.admin : a.username = username}
        ok    == \E a \in found : check_password_hash(a.password_hash, password)
    IN  /\ session' = IF ok
                      THEN LET a == CHOOSE a \in found : TRUE
                           IN  [admin_id |-> a.id, admin_username |-> a.username]
                      ELSE session
        /\ last' = [op |-> "login", username |-> username, password |-> password,
                    flash |-> IF ok THEN {"Login successful."}
                              ELSE {"Invalid username or password."}]
        /\ UNCHANGED <<db, requests>>

logout ==
    /\ session' = EmptySession
    /\ last' = [op |-> "logout", flash |-> {"You have been logged out."}]
    /\ UNCHANGED <<db, requests>>

----------------------------------------------------------------------------
(* Students *)

\* Mutant of InsertStudent: the UNIQUE constraint on email is missing.
InsertStudentUsnOnly(tx, usn, name, email, class_, department) ==
    IF \E s \in tx.students : s.usn = usn
    THEN IntegrityError(tx)
    ELSE LET id == tx.seq.students + 1
         IN  Done([tx EXCEPT !.students = @ \cup {[id |-> id, usn |-> usn, name |-> name,
                                                   email |-> email, class |-> class_,
                                                   department |-> department]},
                             !.seq.students = id])

\* INSERT INTO students: UNIQUE(usn), UNIQUE(email); the id comes from the
\* AUTOINCREMENT sequence.  Yields ok and the new content, or ~ok (an
\* IntegrityError) and the content as it was.
InsertStudent(tx, usn, name, email, class_, department) ==
    IF \E s \in tx.students : s.usn = usn \/ s.email = email
    THEN IntegrityError(tx)
    ELSE LET id == tx.seq.students + 1
         IN  Done([tx EXCEPT !.students = @ \cup {[id |-> id, usn |-> usn, name |-> name,
                                                   email |-> email, class |-> class_,
                                                   department |-> department]},
                             !.seq.students = id])

add_student(f) ==
    LET usn        == strip(f.usn)
        name       == strip(f.name)
        email      == strip(f.email)
        class_     == strip(f.class)
        department == strip(f.department)
        req        == [op |-> "add_student", usn |-> usn, name |-> name, email |-> email,
                       class |-> class_, department |-> department]
    IN  IF ~login_required
        THEN /\ last' = RedirectLogin("add_student")
             /\ UNCHANGED <<db, session, requests>>
        ELSE /\ UNCHANGED <<session, requests>>
             /\ IF usn = <<>> \/ name = <<>> \/ email = <<>> \/ class_ = <<>>
                   \/ department = <<>>
                THEN /\ last' = req @@
                                [flash |-> {"USN, Name, Email, Class, and Department are required."}]
                     /\ UNCHANGED db
                ELSE LET r == InsertStudent(db, usn, name, email, class_, department)
                     IN  IF r.ok
                         THEN /\ last' = req @@ [flash |-> {"Student added successfully."}]
                              /\ db' = close_connection(commit(r.tx), r.tx)
                         ELSE /\ last' = req @@ [flash |-> {"USN or Email already exists."}]
                              /\ db' = close_connection(db, r.tx)

\* Mutant of OtherStudentWith: the query forgets "AND id != ?".
OtherStudentWithAnyId(tx, usn, email, id) ==
    {s \in tx.students : s.usn = usn \/ s.email = email}

\* SELECT id FROM students WHERE (usn = ? OR email = ?) AND id != ?
OtherStudentWith(tx, usn, email, id) ==
    {s \in tx.students : (s.usn = usn \/ s.email = email) /\ s.id # id}

\* Mutant of UpdateStudent: the table has no UNIQUE constraint, the check of
\* the handler is all there is.
UpdateStudentNoUnique(tx, id, usn, name, email, class_, department) ==
    Done([tx EXCEPT !.students =
            {IF s.id = id
             THEN [id |-> id, usn |-> usn, name |-> name, email |-> email,
                   class |-> class_, department |-> department]
             ELSE s : s \in @}])

\* UPDATE students SET ... WHERE id = ?  The UNIQUE constraints on usn and
\* email hold for the updated row as for an inserted one.
UpdateStudent(tx, id, usn, name, email, class_, department) ==
    IF /\ \E s \in tx.students : s.id = id
       /\ \E s \in tx.students : s.id # id /\ (s.usn = usn \/ s.email = email)
    THEN IntegrityError(tx)
    ELSE Done([tx EXCEPT !.students =
                 {IF s.id = id
                  THEN [id |-> id, usn |-> usn, name |-> name, email |-> email,
                        class |-> class_, department |-> department]
                  ELSE s : s \in @}])

edit_student(id, f) ==
    LET usn        == strip(f.usn)
        name       == strip(f.name)
        email      == strip(f.email)
        class_     == strip(f.class)
        department == strip(f.department)
        req        == [op |-> "edit_student", id |-> id, usn |-> usn, name |-> name,
                       email |-> email, class |-> class_, department |-> department]
    IN  IF ~login_required
        THEN /\ last' = RedirectLogin("edit_student")
             /\ UNCHANGED <<db, session, requests>>
        ELSE /\ UNCHANGED <<session, requests>>
             /\ IF usn = <<>> \/ name = <<>> \/ email = <<>> \/ class_ = <<>>
                   \/ department = <<>>
                THEN /\ last' = req @@
                                [flash |-> {"All fields except phone and parent details are required."}]
                     /\ UNCHANGED db
                ELSE IF OtherStudentWith(db, usn, email, id) # {}
                     THEN /\ last' = req @@
                                     [flash |-> {"USN or Email already in use by another student."}]
                          /\ UNCHANGED db
                     ELSE LET r == UpdateStudent(db, id, usn, name, email, class_, department)
                          IN  IF r.ok
                              THEN /\ last' = req @@ [flash |-> {"Student updated successfully."}]
                                   /\ db' = close_connection(commit(r.tx), r.tx)
                              ELSE /\ last' = req @@ [flash |-> InternalServerError]
                                   /\ db' = close_connection(db, r.tx)

\* DELETE FROM students WHERE id = ?  Foreign keys are not enforced on the
\* connection, so no child row goes with it.
DeleteStudent(tx, id) == [tx EXCEPT !.students = {s \in @ : s.id # id}]

delete_student(id) ==
    IF ~login_required
    THEN /\ last' = RedirectLogin("delete_student")
         /\ UNCHANGED <<db, session, requests>>
    ELSE LET tx == DeleteStudent(db, id)
         IN  /\ UNCHANGED <<session, requests>>
             /\ last' = [op |-> "delete_student", id |-> id,
                         flash |-> {"Student deleted successfully."}]
             /\ db' = close_connection(commit(tx), tx)

----------------------------------------------------------------------------
(* Attendance *)

\* Mutant of InsertAttendance: the table lacks UNIQUE(student_id, date).
InsertAttendanceNoUnique(tx, student_id, date, status) ==
    IF status \notin {"Present", "Absent"}
    THEN IntegrityError(tx)
    ELSE Done([tx EXCEPT !.attendance =
                 @ (+) SetToBag({[student_id |-> student_id, date |-> date,
                                  status |-> status]})])

\* Mutant of InsertAttendance: INSERT OR REPLACE, the new status wins.
InsertAttendanceUpsert(tx, student_id, date, status) ==
    IF status \notin {"Present", "Absent"}
    THEN IntegrityError(tx)
    ELSE Done([tx EXCEPT !.attendance =
                 SetToBag({r \in BagToSet(@) :
                              ~(r.student_id = student_id /\ r.date = date)}
                          \cup {[student_id |-> student_id, date |-> date,
                                 status |-> status]})])

\* INSERT INTO attendance: CHECK(status IN ('Present','Absent')) and
\* UNIQUE(student_id, date); the foreign key to students is not enforced.
InsertAttendance(tx, student_id, date, status) ==
    IF \/ status \notin {"Present", "Absent"}
       \/ \E r \in BagToSet(tx.attendance) : r.student_id = student_id /\ r.date = date
    THEN IntegrityError(tx)
    ELSE Done([tx EXCEPT !.attendance =
                 @ (+) SetToBag({[student_id |-> student_id, date |-> date,
                                  status |-> status]})])

\* POST /attendance
attendance(student_id, date, status) ==
    IF ~login_required
    THEN /\ last' = RedirectLogin("attendance")
         /\ UNCHANGED <<db, session, requests>>
    ELSE LET r   == InsertAttendance(db, student_id, date, status)
             req == [op |-> "attendance", student_id |-> student_id, date |-> date,
                     status |-> status]
         IN  /\ UNCHANGED <<session, requests>>
             /\ IF r.ok
                THEN /\ last' = req @@ [flash |-> {"Attendance marked successfully."}]
                     /\ db' = close_connection(commit(r.tx), r.tx)
                ELSE /\ last' = req @@
                          [flash |-> {"Attendance for this student on this date already exists."}]
                     /\ db' = close_connection(db, r.tx)

\* A set of ids as the list a table scan yields them in (rowid order).
RECURSIVE IdList(_)
IdList(S) ==
    IF S = {} THEN <<>>
    ELSE LET m == CHOOSE x \in S : \A y \in S : x <= y
         IN  <<m>> \o IdList(S \ {m})

All == <<"All">>

\* SELECT id FROM students [WHERE class = ? [AND department = ?]]: a filter
\* that is missing, empty or 'All' adds no condition.
SelectStudentIds(tx, class_filter, dept_filter) ==
    IdList({s.id : s \in {t \in tx.students :
                /\ (class_filter # <<>> /\ class_filter # All) => t.class = class_filter
                /\ (dept_filter # <<>> /\ dept_filter # All) => t.department = dept_filter}})

NoField == "(no field)"

\* request.form.get(f'status_{sid}', 'Present')
FormStatus(form, sid) == IF form[sid] = NoField THEN "Present" ELSE form[sid]

\* Mutant of BulkAttendanceLoop: the first INSERT that fails ends the loop.
RECURSIVE BulkAttendanceLoopStopping(_, _, _, _, _)
BulkAttendanceLoopStopping(acc, student_ids, i, date, form) ==
    IF i > Len(student_ids) THEN acc
    ELSE LET sid == student_ids[i]
             r   == InsertAttendance(acc.tx, sid, date, FormStatus(form, sid))
         IN  IF r.ok
             THEN BulkAttendanceLoopStopping(
                      [acc EXCEPT !.tx = r.tx, !.success_count = @ + 1],
                      student_ids, i + 1, date, form)
             ELSE [acc EXCEPT !.exists_count = @ + 1]

\* The for loop of bulk_attendance over student_ids[i..]: one INSERT each, an
\* IntegrityError counted as "already existed".
RECURSIVE BulkAttendanceLoop(_, _, _, _, _)
BulkAttendanceLoop(acc, student_ids, i, date, form) ==
    IF i > Len(student_ids) THEN acc
    ELSE LET sid == student_ids[i]
             r   == InsertAttendance(acc.tx, sid, date, FormStatus(form, sid))
         IN  BulkAttendanceLoop(
                 IF r.ok
                 THEN [acc EXCEPT !.tx = r.tx, !.success_count = @ + 1]
                 ELSE [acc EXCEPT !.exists_count = @ + 1],
                 student_ids, i + 1, date, form)

\* POST /attendance/bulk
bulk_attendance(date, class_filter, dept_filter, form) ==
    IF ~login_required
    THEN /\ last' = RedirectLogin("bulk_attendance")
         /\ UNCHANGED <<db, session, requests>>
    ELSE LET student_ids == SelectStudentIds(db, class_filter, dept_filter)
             done == BulkAttendanceLoop([tx |-> db, success_count |-> 0, exists_count |-> 0],
                                        student_ids, 1, date, form)
         IN  /\ UNCHANGED <<session, requests>>
             /\ last' = [op |-> "bulk_attendance", date |-> date,
                         class_filter |-> class_filter, dept_filter |-> dept_filter,
                         success_count |-> done.success_count,
                         exists_count |-> done.exists_count,
                         flash |-> {"Bulk attendance marked"}]
             /\ db' = close_connection(commit(done.tx), done.tx)

----------------------------------------------------------------------------
(* Tasks and their assignment *)

NULL == "NULL"

\* INSERT INTO tasks: the id comes from the AUTOINCREMENT sequence, which is
\* part of the transaction like the row.
InsertTask(tx, title, due_date) ==
    LET id == tx.seq.tasks + 1
    IN  Done([tx EXCEPT !.tasks = @ \cup {[id |-> id, title |-> title,
                                          due_date |-> due_date]},
                        !.seq.tasks = id])

PendingRow(task_id, student_id) ==
    [task_id |-> task_id, student_id |-> student_id, status |-> "Pending",
     completed_date |-> NULL]

\* Mutant of InsertStudentTask: the table lacks UNIQUE(task_id, student_id).
InsertStudentTaskNoUnique(tx, task_id, student_id) ==
    Done([tx EXCEPT !.student_tasks = @ (+) SetToBag({PendingRow(task_id, student_id)})])

\* INSERT INTO student_tasks (task_id, student_id, status) VALUES (?, ?, 'Pending'):
\* UNIQUE(task_id, student_id); neither foreign key is enforced.
InsertStudentTask(tx, task_id, student_id) ==
    IF \E r \in BagToSet(tx.student_tasks) :
          r.task_id = task_id /\ r.student_id = student_id
    THEN IntegrityError(tx)
    ELSE Done([tx EXCEPT !.student_tasks =
                 @ (+) SetToBag({PendingRow(task_id, student_id)})])

\* Mutant of DeleteStudentTask: the statement forgets "task_id = ? AND".
DeleteStudentTaskEveryTask(tx, task_id, student_id) ==
    [tx EXCEPT !.student_tasks =
        [r \in {x \in BagToSet(@) : x.student_id # student_id} |-> @[r]]]

\* DELETE FROM student_tasks WHERE task_id = ? AND student_id = ?
DeleteStudentTask(tx, task_id, student_id) ==
    [tx EXCEPT !.student_tasks =
        [r \in {x \in BagToSet(@) : ~(x.task_id = task_id /\ x.student_id = student_id)}
           |-> @[r]]]

\* The assign-to-all loop of tasks(): one INSERT per student, a conflict passed over.
RECURSIVE AssignAllLoop(_, _, _, _)
AssignAllLoop(tx, task_id, students, i) ==
    IF i > Len(students) THEN tx
    ELSE AssignAllLoop(InsertStudentTask(tx, task_id, students[i]).tx,
                       task_id, students, i + 1)

\* What tasks() has committed when it returns: db.commit() stands inside
\* "if assign_all:" only, so without assign_all it is what was there before.
TaskCommitted(before, assigned, assign_all) ==
    IF assign_all THEN commit(assigned) ELSE before

\* POST /tasks
tasks(title_field, due_date, assign_all) ==
    IF ~login_required
    THEN /\ last' = RedirectLogin("tasks")
         /\ UNCHANGED <<db, session, requests>>
    ELSE LET title == strip(title_field)
             req   == [op |-> "tasks", title |-> title, due_date |-> due_date,
                       assign_all |-> assign_all]
         IN  /\ UNCHANGED <<session, requests>>
             /\ IF title = <<>> \/ due_date = ""
                THEN /\ last' = req @@ [flash |-> {"Title and due date are required."}]
                     /\ UNCHANGED db
                ELSE LET tx       == InsertTask(db, title, due_date).tx
                         task_id  == tx.seq.tasks
                         assigned == AssignAllLoop(tx, task_id,
                                         SelectStudentIds(tx, All, All), 1)
                     IN  /\ last' = req @@
                              [task_id |-> task_id,
                               flash |-> IF assign_all
                                         THEN {"Task added and assigned to all students."}
                                         ELSE {"Task added. Use Assign to assign to students."}]
                         /\ db' = close_connection(TaskCommitted(db, assigned, assign_all),
                                                   IF assign_all THEN assigned ELSE tx)

\* POST /tasks/assign_to_student/<task_id>/<student_id>
assign_task_to_student(task_id, student_id) ==
    IF ~login_required
    THEN /\ last' = RedirectLogin("assign_task_to_student")
         /\ UNCHANGED <<db, session, requests>>
    ELSE LET r   == InsertStudentTask(db, task_id, student_id)
             req == [op |-> "assign_task_to_student", task_id |-> task_id,
                     student_id |-> student_id]
         IN  /\ UNCHANGED <<session, requests>>
             /\ IF r.ok
                THEN /\ last' = req @@ [flash |-> {"Task assigned to student."}]
                     /\ db' = close_connection(commit(r.tx), r.tx)
                ELSE /\ last' = req @@ [flash |-> {"Task already assigned to this student."}]
                     /\ db' = close_connection(db, r.tx)

\* SELECT student_id FROM student_tasks WHERE task_id = ?
AssignedIds(tx, task_id) ==
    IdList({r.student_id : r \in {x \in BagToSet(tx.student_tasks) : x.task_id = task_id}})

Elements(list) == {list[i] : i \in DOMAIN list}

\* [sid for sid in selected_student_ids if sid not in currently_assigned_ids]
ToAssign(selected, current) ==
    SelectSeq(selected, LAMBDA sid : sid \notin Elements(current))

\* Mutant of ToUnassign: the condition is inverted, "if sid in selected".
ToUnassignInverted(selected, current) ==
    SelectSeq(current, LAMBDA sid : sid \in Elements(selected))

\* [sid for sid in currently_assigned_ids if sid not in selected_student_ids]
ToUnassign(selected, current) ==
    SelectSeq(current, LAMBDA sid : sid \notin Elements(selected))

\* The assignment loop: assign_count counts the INSERTs that went through.
RECURSIVE AssignLoop(_, _, _, _)
AssignLoop(acc, task_id, to_assign, i) ==
    IF i > Len(to_assign) THEN acc
    ELSE LET r == InsertStudentTask(acc.tx, task_id, to_assign[i])
         IN  AssignLoop(IF r.ok THEN [tx |-> r.tx, count |-> acc.count + 1] ELSE acc,
                        task_id, to_assign, i + 1)

\* The unassignment loop: unassign_count counts the DELETEs issued.
RECURSIVE UnassignLoop(_, _, _, _)
UnassignLoop(acc, task_id, to_unassign, i) ==
    IF i > Len(to_unassign) THEN acc
    ELSE UnassignLoop([tx |-> DeleteStudentTask(acc.tx, task_id, to_unassign[i]),
                       count |-> acc.count + 1],
                      task_id, to_unassign, i + 1)

Digits == <<"1", "2", "3", "4", "5", "6", "7", "8", "9">>

\* int(id) of a form value: the number a one-digit string spells; any other
\* string here raises ValueError.
IsNumber(s) == \E n \in DOMAIN Digits : Digits[n] = s
int(s) == CHOOSE n \in DOMAIN Digits : Digits[n] = s

IntList(strings) == [i \in DOMAIN strings |-> int(strings[i])]

\* POST /tasks/update_assignments/<task_id>
update_task_assignments(task_id, student_ids) ==
    IF ~login_required
    THEN /\ last' = RedirectLogin("update_task_assignments")
         /\ UNCHANGED <<db, session, requests>>
    ELSE IF \E s \in Elements(student_ids) : ~IsNumber(s)
         THEN \* int(id) raises ValueError before the first statement
              /\ last' = [op |-> "update_task_assignments", task_id |-> task_id,
                          selected |-> {}, again |-> FALSE,
                          flash |-> InternalServerError]
              /\ UNCHANGED <<db, session, requests>>
         ELSE LET selected   == IntList(student_ids)
                  current    == AssignedIds(db, task_id)
                  assigned   == AssignLoop([tx |-> db, count |-> 0], task_id,
                                           ToAssign(selected, current), 1)
                  unassigned == UnassignLoop([tx |-> assigned.tx, count |-> 0], task_id,
                                             ToUnassign(selected, current), 1)
              IN  /\ UNCHANGED <<session, requests>>
                  /\ last' =
                       [op |-> "update_task_assignments", task_id |-> task_id,
                        selected |-> Elements(selected),
                        \* the request before this one asked the same of the same task
                        again |-> /\ last.op = "update_task_assignments"
                                  /\ last.flash # InternalServerError
                                  /\ last.task_id = task_id
                                  /\ last.selected = Elements(selected),
                        assign_count |-> assigned.count,
                        unassign_count |-> unassigned.count,
                        flash |->
                          (IF assigned.count > 0 THEN {"Task assigned to new student(s)."}
                           ELSE {})
                          \cup (IF unassigned.count > 0
                                THEN {"Task unassigned from student(s)."} ELSE {})
                          \cup (IF assigned.count = 0 /\ unassigned.count = 0
                                THEN {"No changes made to assignments."} ELSE {})]
                  /\ db' = close_connection(commit(unassigned.tx), unassigned.tx)

\* UPDATE student_tasks SET status='Completed', completed_date=?
\* WHERE task_id=? AND student_id=?
CompleteStudentTask(tx, task_id, student_id, today) ==
    [tx EXCEPT !.student_tasks =
        BagOfAll(LAMBDA r : IF r.task_id = task_id /\ r.student_id = student_id
                            THEN [r EXCEPT !.status = "Completed", !.completed_date = today]
                            ELSE r, @)]

\* POST /tasks/complete/<task_id>/<student_id>, today being
\* datetime.today().strftime('%Y-%m-%d')
complete_task(task_id, student_id, today) ==
    IF ~login_required
    THEN /\ last' = RedirectLogin("complete_task")
         /\ UNCHANGED <<db, session, requests>>
    ELSE LET tx == CompleteStudentTask(db, task_id, student_id, today)
         IN  /\ UNCHANGED <<session, requests>>
             /\ last' = [op |-> "complete_task", task_id |-> task_id,
                         student_id |-> student_id, today |-> today,
                         flash |-> {"Task marked as completed."}]
             /\ db' = close_connection(commit(tx), tx)

\* Mutant of ResetStudentTask: the status goes back, the date stays.
ResetStudentTaskKeepDate(tx, task_id, student_id) ==
    [tx EXCEPT !.student_tasks =
        BagOfAll(LAMBDA r : IF r.task_id = task_id /\ r.student_id = student_id
                            THEN [r EXCEPT !.status = "Pending"]
                            ELSE r, @)]

\* UPDATE student_tasks SET status='Pending', completed_date=NULL
\* WHERE task_id=? AND student_id=?
ResetStudentTask(tx, task_id, student_id) ==
    [tx EXCEPT !.student_tasks =
        BagOfAll(LAMBDA r : IF r.task_id = task_id /\ r.student_id = student_id
                            THEN [r EXCEPT !.status = "Pending", !.completed_date = NULL]
                            ELSE r, @)]

\* POST /tasks/reset/<task_id>/<student_id>
reset_task(task_id, student_id) ==
    IF ~login_required
    THEN /\ last' = RedirectLogin("reset_task")
         /\ UNCHANGED <<db, session, requests>>
    ELSE LET tx == ResetStudentTask(db, task_id, student_id)
         IN  /\ UNCHANGED <<session, requests>>
             /\ last' = [op |-> "reset_task", task_id |-> task_id,
                         student_id |-> student_id,
                         \* the row was Completed when the request came
                         was_completed |->
                             \E r \in BagToSet(db.student_tasks) :
                                 /\ r.task_id = task_id /\ r.student_id = student_id
                                 /\ r.status = "Completed",
                         flash |-> {"Task status reset."}]
             /\ db' = close_connection(commit(tx), tx)

\* Mutant of BulkCompleteStudentTasks: "AND status = 'Pending'" is missing.
BulkCompleteEvery(tx, task_id, today) ==
    [tx EXCEPT !.student_tasks =
        BagOfAll(LAMBDA r : IF r.task_id = task_id
                            THEN [r EXCEPT !.status = "Completed", !.completed_date = today]
                            ELSE r, @)]

\* UPDATE student_tasks SET status = 'Completed', completed_date = ?
\* WHERE task_id = ? AND status = 'Pending'
BulkCompleteStudentTasks(tx, task_id, today) ==
    [tx EXCEPT !.student_tasks =
        BagOfAll(LAMBDA r : IF r.task_id = task_id /\ r.status = "Pending"
                            THEN [r EXCEPT !.status = "Completed", !.completed_date = today]
                            ELSE r, @)]

\* POST /tasks/bulk_complete/<task_id>
bulk_complete_task(task_id, today) ==
    IF ~login_required
    THEN /\ last' = RedirectLogin("bulk_complete_task")
         /\ UNCHANGED <<db, session, requests>>
    ELSE LET tx == BulkCompleteStudentTasks(db, task_id, today)
         IN  /\ UNCHANGED <<session, requests>>
             /\ last' = [op |-> "bulk_complete_task", task_id |-> task_id,
                         today |-> today,
                         \* the students whose row was Pending, and Completed,
                         \* when the request came
                         pending |-> {r.student_id : r \in
                                        {x \in BagToSet(db.student_tasks) :
                                           x.task_id = task_id /\ x.status = "Pending"}},
                         completed |-> {r.student_id : r \in
                                        {x \in BagToSet(db.student_tasks) :
                                           x.task_id = task_id /\ x.status = "Completed"}},
                         flash |-> {"All pending students marked as completed."}]
             /\ db' = close_connection(commit(tx), tx)

\* POST /tasks/delete/<id>: DELETE FROM tasks WHERE id = ?, no student_tasks
\* row going with it (foreign keys are not enforced).
delete_task(id) ==
    IF ~login_required
    THEN /\ last' = RedirectLogin("delete_task")
         /\ UNCHANGED <<db, session, requests>>
    ELSE LET tx == [db EXCEPT !.tasks = {t \in @ : t.id # id}]
         IN  /\ UNCHANGED <<session, requests>>
             /\ last' = [op |-> "delete_task", id |-> id, flash |-> {"Task deleted."}]
             /\ db' = close_connection(commit(tx), tx)

----------------------------------------------------------------------------
(* Subjects *)

IsDigit(c) == c \in {"0"} \cup {Digits[n] : n \in DOMAIN Digits}

RECURSIVE DropZeros(_)
DropZeros(s) == IF Len(s) > 1 /\ Head(s) = "0" THEN DropZeros(Tail(s)) ELSE s

\* A value bound to the column "semester INTEGER", or compared with it: text
\* that spells an integer becomes that integer (written here as its numeral
\* without leading zeros or blanks), any other text stays as it is.
IntegerAffinity(text) ==
    LET t == strip(text)
    IN  IF t # <<>> /\ \A i \in DOMAIN t : IsDigit(t[i]) THEN DropZeros(t) ELSE text

\* Mutant of InsertSubject: idx_subjects_unique is missing.
InsertSubjectNoIndex(tx, name, course, semester) ==
    LET id == tx.seq.subjects + 1
    IN  Done([tx EXCEPT !.subjects = @ \cup {[id |-> id, name |-> name, course |-> course,
                                             semester |-> IntegerAffinity(semester)]},
                        !.seq.subjects = id])

\* INSERT INTO subjects, under the unique index on (name, course, semester)
\* that migrate_db creates at start-up.
InsertSubject(tx, name, course, semester) ==
    IF \E s \in tx.subjects : /\ s.name = name /\ s.course = course
                              /\ s.semester = IntegerAffinity(semester)
    THEN IntegrityError(tx)
    ELSE LET id == tx.seq.subjects + 1
         IN  Done([tx EXCEPT !.subjects = @ \cup {[id |-> id, name |-> name,
                                                  course |-> course,
                                                  semester |-> IntegerAffinity(semester)]},
                             !.seq.subjects = id])

\* POST /subjects
subjects(f) ==
    IF ~login_required
    THEN /\ last' = RedirectLogin("subjects")
         /\ UNCHANGED <<db, session, requests>>
    ELSE LET name   == strip(f.name)
             course == strip(f.course)
             req    == [op |-> "subjects", name |-> name, course |-> course,
                        semester |-> f.semester]
         IN  /\ UNCHANGED <<session, requests>>
             /\ IF name = <<>> \/ course = <<>> \/ f.semester = <<>>
                THEN /\ last' = req @@
                          [flash |-> {"Subject name, course, and semester are required."}]
                     /\ UNCHANGED db
                ELSE LET r == InsertSubject(db, name, course, f.semester)
                     IN  IF r.ok
                         THEN /\ last' = req @@ [flash |-> {"Subject added successfully."}]
                              /\ db' = close_connection(commit(r.tx), r.tx)
                         ELSE /\ last' = req @@
                                   [flash |-> {"Subject with this name, course, and semester already exists."}]
                              /\ db' = close_connection(db, r.tx)

\* Mutant of OtherSubjectWith: the query compares name and course only.
OtherSubjectWithNameCourse(tx, name, course, semester, id) ==
    {s \in tx.subjects : s.name = name /\ s.course = course /\ s.id # id}

\* SELECT id FROM subjects WHERE name = ? AND course = ? AND semester = ? AND id != ?
OtherSubjectWith(tx, name, course, semester, id) ==
    {s \in tx.subjects : /\ s.name = name /\ s.course = course
                         /\ s.semester = IntegerAffinity(semester)
                         /\ s.id # id}

\* UPDATE subjects SET name = ?, course = ?, semester = ? WHERE id = ?, under
\* the unique index.
UpdateSubject(tx, id, name, course, semester) ==
    IF /\ \E s \in tx.subjects : s.id = id
       /\ \E s \in tx.subjects : /\ s.id # id /\ s.name = name /\ s.course = course
                                 /\ s.semester = IntegerAffinity(semester)
    THEN IntegrityError(tx)
    ELSE Done([tx EXCEPT !.subjects =
                 {IF s.id = id
                  THEN [id |-> id, name |-> name, course |-> course,
                        semester |-> IntegerAffinity(semester)]
                  ELSE s : s \in @}])

\* POST /subjects/edit/<id>
edit_subject(id, f) ==
    IF ~login_required
    THEN /\ last' = RedirectLogin("edit_subject")
         /\ UNCHANGED <<db, session, requests>>
    ELSE LET name   == strip(f.name)
             course == strip(f.course)
             req    == [op |-> "edit_subject", id |-> id, name |-> name, course |-> course,
                        semester |-> f.semester]
         IN  /\ UNCHANGED <<session, requests>>
             /\ IF name = <<>> \/ course = <<>> \/ f.semester = <<>>
                THEN /\ last' = req @@
                          [flash |-> {"Subject name, course, and semester are required."}]
                     /\ UNCHANGED db
                ELSE IF OtherSubjectWith(db, name, course, f.semester, id) # {}
                     THEN /\ last' = req @@
                               [flash |-> {"Subject with this name, course, and semester already exists."}]
                          /\ UNCHANGED db
                     ELSE LET r == UpdateSubject(db, id, name, course, f.semester)
                          IN  IF r.ok
                              THEN /\ last' = req @@ [flash |-> {"Subject updated successfully."}]
                                   /\ db' = close_connection(commit(r.tx), r.tx)
                              ELSE /\ last' = req @@ [flash |-> InternalServerError]
                                   /\ db' = close_connection(db, r.tx)

\* POST /subjects/delete/<id>: DELETE FROM subjects WHERE id = ?, no marks row
\* going with it (foreign keys are not enforced).
delete_subject(id) ==
    IF ~login_required
    THEN /\ last' = RedirectLogin("delete_subject")
         /\ UNCHANGED <<db, session, requests>>
    ELSE LET tx == [db EXCEPT !.subjects = {s \in @ : s.id # id}]
         IN  /\ UNCHANGED <<session, requests>>
             /\ last' = [op |-> "delete_subject", id |-> id, flash |-> {"Subject deleted."}]
             /\ db' = close_connection(commit(tx), tx)

----------------------------------------------------------------------------
(* Marks *)

\* INSERT INTO marks: no uniqueness, foreign keys not enforced; the id comes
\* from the AUTOINCREMENT sequence.
InsertMark(tx, student_id, subject_id, exam_type, marks_obtained, max_marks) ==
    LET id == tx.seq.marks + 1
    IN  Done([tx EXCEPT !.marks = @ \cup {[id |-> id, student_id |-> student_id,
                                          subject_id |-> subject_id,
                                          exam_type |-> exam_type,
                                          marks_obtained |-> int(marks_obtained),
                                          max_marks |-> int(max_marks)]},
                        !.seq.marks = id])

\* POST /marks
marks(student_id, subject_id, exam_type_field, marks_obtained, max_marks) ==
    IF ~login_required
    THEN /\ last' = RedirectLogin("marks")
         /\ UNCHANGED <<db, session, requests>>
    ELSE LET exam_type == strip(exam_type_field)
             req == [op |-> "marks", student_id |-> student_id, subject_id |-> subject_id]
         IN  /\ UNCHANGED <<session, requests>>
             /\ IF exam_type = <<>> \/ marks_obtained = "" \/ max_marks = ""
                THEN /\ last' = req @@ [flash |-> {"All fields except remarks are required."}]
                     /\ UNCHANGED db
                ELSE LET r == InsertMark(db, student_id, subject_id, exam_type,
                                         marks_obtained, max_marks)
                     IN  /\ last' = req @@ [flash |-> {"Marks added successfully."}]
                         /\ db' = close_connection(commit(r.tx), r.tx)

\* Mutant of ListGet: past the end of the list its last entry is used again.
ListGetLast(list, i) ==
    IF i <= Len(list) THEN list[i] ELSE IF list = <<>> THEN "" ELSE list[Len(list)]

\* marks_obtained_list[i] if i < len(marks_obtained_list) else ''  (positions
\* are counted from 1 here, from 0 in the code)
ListGet(list, i) == IF i <= Len(list) THEN list[i] ELSE ""

\* if not marks_obtained or not max_marks: continue
Skipped(marks_obtained, max_marks) == marks_obtained = "" \/ max_marks = ""

\* The for loop of bulk_marks over enumerate(student_ids): one INSERT for each
\* position that has both scores, success_count counting the INSERTs that
\* went through.
RECURSIVE BulkMarksLoop(_, _, _, _, _, _, _)
BulkMarksLoop(acc, student_ids, i, subject_id, exam_type, marks_obtained_list, max_marks_list) ==
    IF i > Len(student_ids) THEN acc
    ELSE LET marks_obtained == ListGet(marks_obtained_list, i)
             max_marks      == ListGet(max_marks_list, i)
         IN  IF Skipped(marks_obtained, max_marks)
             THEN BulkMarksLoop(acc, student_ids, i + 1, subject_id, exam_type,
                                marks_obtained_list, max_marks_list)
             ELSE LET r == InsertMark(acc.tx, int(student_ids[i]), int(subject_id),
                                      exam_type, marks_obtained, max_marks)
                  IN  BulkMarksLoop(
                          IF r.ok
                          THEN [tx |-> r.tx, success_count |-> acc.success_count + 1]
                          ELSE acc,
                          student_ids, i + 1, subject_id, exam_type,
                          marks_obtained_list, max_marks_list)

\* POST /marks/bulk
bulk_marks(subject_id, exam_type_field, student_ids, marks_obtained_list, max_marks_list) ==
    IF ~login_required
    THEN /\ last' = RedirectLogin("bulk_marks")
         /\ UNCHANGED <<db, session, requests>>
    ELSE LET exam_type == strip(exam_type_field)
             req == [op |-> "bulk_marks", subject_id |-> subject_id,
                     exam_type |-> exam_type, student_ids |-> student_ids,
                     marks_obtained_list |-> marks_obtained_list,
                     max_marks_list |-> max_marks_list]
         IN  /\ UNCHANGED <<session, requests>>
             /\ IF subject_id = "" \/ exam_type = <<>>
                THEN /\ last' = req @@ [success_count |-> 0,
                                        flash |-> {"Subject and exam type are required."}]
                     /\ UNCHANGED db
                ELSE LET done == BulkMarksLoop([tx |-> db, success_count |-> 0],
                                               student_ids, 1, subject_id, exam_type,
                                               marks_obtained_list, max_marks_list)
                     IN  /\ last' = req @@ [success_count |-> done.success_count,
                                            flash |-> {"Bulk marks added"}]
                         /\ db' = close_connection(commit(done.tx), done.tx)

\* UPDATE marks SET student_id=?, subject_id=?, exam_type=?, marks_obtained=?,
\* max_marks=? ... WHERE id=?
UpdateMark(tx, id, student_id, subject_id, exam_type, marks_obtained, max_marks) ==
    [tx EXCEPT !.marks =
        {IF r.id = id
         THEN [id |-> id, student_id |-> student_id, subject_id |-> subject_id,
               exam_type |-> exam_type, marks_obtained |-> int(marks_obtained),
               max_marks |-> int(max_marks)]
         ELSE r : r \in @}]

\* POST /marks/edit/<id>
edit_mark(id, student_id, subject_id, exam_type_field, marks_obtained, max_marks) ==
    IF ~login_required
    THEN /\ last' = RedirectLogin("edit_mark")
         /\ UNCHANGED <<db, session, requests>>
    ELSE LET exam_type == strip(exam_type_field)
             req == [op |-> "edit_mark", id |-> id, student_id |-> student_id,
                     subject_id |-> subject_id]
         IN  /\ UNCHANGED <<session, requests>>
             /\ IF exam_type = <<>> \/ marks_obtained = "" \/ max_marks = ""
                THEN /\ last' = req @@ [flash |-> {"All fields except remarks are required."}]
                     /\ UNCHANGED db
                ELSE LET tx == UpdateMark(db, id, student_id, subject_id, exam_type,
                                          marks_obtained, max_marks)
                     IN  /\ last' = req @@ [flash |-> {"Marks updated successfully."}]
                         /\ db' = close_connection(commit(tx), tx)

\* POST /marks/delete/<id>
delete_mark(id) ==
    IF ~login_required
    THEN /\ last' = RedirectLogin("delete_mark")
         /\ UNCHANGED <<db, session, requests>>
    ELSE LET tx == [db EXCEPT !.marks = {r \in @ : r.id # id}]
         IN  /\ UNCHANGED <<session, requests>>
             /\ last' = [op |-> "delete_mark", id |-> id, flash |-> {"Marks deleted."}]
             /\ db' = close_connection(commit(tx), tx)

----------------------------------------------------------------------------
(* Reports *)

\* COUNT(*) ... FROM attendance WHERE student_id = ?, and
\* SUM(CASE WHEN status = ? THEN 1 ELSE 0 END) or 0 over the same rows (the
\* SUM of no row is NULL, which "or 0" turns into 0).
CountAttendance(tx, student_id) ==
    BagCardinality([r \in {x \in BagToSet(tx.attendance) : x.student_id = student_id}
                      |-> tx.attendance[r]])

SumStatus(tx, student_id, status) ==
    BagCardinality([r \in {x \in BagToSet(tx.attendance) :
                              x.student_id = student_id /\ x.status = status}
                      |-> tx.attendance[r]])

\* Mutant of round2: the quotient is cut off after two decimals.
round2Truncated(present, total) == (present * 10000) \div total

\* round(present / total * 100, 2), as hundredths of a percent: the nearest
\* hundredth, a tie going to the even one.
round2(present, total) ==
    LET q == (present * 10000) \div total
        r == (present * 10000) % total
    IN  IF 2 * r > total THEN q + 1
        ELSE IF 2 * r = total THEN q + (q % 2)
        ELSE q

\* round((present / total * 100), 2) if total > 0 else 0
Percent(present, total) == IF total > 0 THEN round2(present, total) ELSE 0

\* GET /student_report/<student_id>
student_report(student_id) ==
    IF ~login_required
    THEN /\ last' = RedirectLogin("student_report")
         /\ UNCHANGED <<db, session, requests>>
    ELSE /\ UNCHANGED <<db, session, requests>>
         /\ IF ~\E s \in db.students : s.id = student_id
            THEN last' = [op |-> "student_report", student_id |-> student_id,
                          flash |-> {"Student not found."}]
            ELSE LET total_days == CountAttendance(db, student_id)
                     present    == SumStatus(db, student_id, "Present")
                     absent     == SumStatus(db, student_id, "Absent")
                 IN  last' = [op |-> "student_report", student_id |-> student_id,
                              total_days |-> total_days, present |-> present,
                              absent |-> absent,
                              attendance_percent |-> Percent(present, total_days),
                              flash |-> {}]

\* GET /reports: one row per student the filters select (LEFT JOIN attendance,
\* GROUP BY s.id), a student without attendance rows included.
reports(class_filter, dept_filter) ==
    IF ~login_required
    THEN /\ last' = RedirectLogin("reports")
         /\ UNCHANGED <<db, session, requests>>
    ELSE LET students_data ==
                 {s \in db.students :
                     /\ (class_filter # <<>> /\ class_filter # All) => s.class = class_filter
                     /\ (dept_filter # <<>> /\ dept_filter # All) => s.department = dept_filter}
             report_rows ==
                 {[id |-> s.id, class |-> s.class, department |-> s.department,
                   total |-> CountAttendance(db, s.id),
                   present |-> SumStatus(db, s.id, "Present"),
                   absent |-> SumStatus(db, s.id, "Absent"),
                   percent |-> Percent(SumStatus(db, s.id, "Present"),
                                       CountAttendance(db, s.id))] : s \in students_data}
         IN  /\ UNCHANGED <<db, session, requests>>
             /\ last' = [op |-> "reports", class_filter |-> class_filter,
                         dept_filter |-> dept_filter, report |-> report_rows,
                         flash |-> {}]

----------------------------------------------------------------------------
(* Start-up: init_db and migrate_db on the database file that is there *)

\* NULL in a text or integer column of subjects, apart from every value a
\* form can send and never equal to anything in a unique index.
NoValue == <<NULL>>

\* Mutant of SeedAdmin: the default admin is inserted on every run.
SeedAdminAlways(tx) ==
    [tx EXCEPT !.admin = @ \cup {[id |-> Cardinality(@) + 1, username |-> "admin",
                                 password_hash |-> generate_password_hash("admin")]}]

\* SELECT COUNT(*) FROM admin; if it is 0, INSERT the default admin.
SeedAdmin(tx) ==
    IF Cardinality(tx.admin) = 0
    THEN [tx EXCEPT !.admin = {[id |-> 1, username |-> "admin",
                                password_hash |-> generate_password_hash("admin")]}]
    ELSE tx

\* ALTER TABLE subjects ADD COLUMN col: the rows there get NULL in it.
AddColumn(tx, col) ==
    [tx EXCEPT !.schema[col] = TRUE,
               !.subjects = {[s EXCEPT ![col] = NoValue] : s \in @}]

\* UPDATE subjects SET col = value WHERE col IS NULL
Backfill(tx, col, value) ==
    [tx EXCEPT !.subjects = {IF s[col] = NoValue THEN [s EXCEPT ![col] = value] ELSE s
                             : s \in @}]

\* CREATE UNIQUE INDEX IF NOT EXISTS idx_subjects_unique ON
\* subjects(name, course, semester): it fails when two rows agree on the three
\* columns, a NULL agreeing with nothing.
CreateUniqueIndex(tx) ==
    IF tx.schema.idx_subjects_unique THEN Done(tx)
    ELSE IF \E s, t \in tx.subjects :
               /\ s.id # t.id
               /\ s.name = t.name /\ s.course = t.course /\ s.semester = t.semester
               /\ s.course # NoValue /\ s.semester # NoValue
         THEN IntegrityError(tx)
         ELSE Done([tx EXCEPT !.schema.idx_subjects_unique = TRUE])

\* migrate_db on its own connection.  An ALTER TABLE issued while no
\* transaction is open takes effect at once; an UPDATE opens the implicit
\* transaction, and what follows it is dropped with it if db.commit() is not
\* reached.
migrate_db(file) ==
    LET no_course   == ~file.schema.course
        no_semester == ~file.schema.semester
        altered     == IF no_course THEN AddColumn(file, "course")
                       ELSE IF no_semester THEN AddColumn(file, "semester")
                       ELSE file
        course_done == IF no_course
                       THEN Backfill(AddColumn(file, "course"), "course", <<"BCom">>)
                       ELSE file
        both_done   == IF no_semester
                       THEN Backfill(AddColumn(course_done, "semester"), "semester", <<"1">>)
                       ELSE course_done
        indexed     == CreateUniqueIndex(both_done)
    IN  IF indexed.ok
        THEN Done(commit(indexed.tx))
        ELSE IntegrityError(close_connection(altered, indexed.tx))

StartupFailed == {"sqlite3.IntegrityError"}

\* if __name__ == '__main__': init_db() and then app.run().  init_db creates
\* the tables that are missing, seeds the admin, commits and calls migrate_db;
\* an exception of migrate_db ends the process before it serves a request.
main ==
    LET seeded   == commit(SeedAdmin(db))
        migrated == migrate_db(seeded)
    IN  /\ db' = migrated.tx
        /\ last' = [op |-> "init_db",
                    \* the file held the current schema and an admin before the run
                    current |-> /\ db.schema.course /\ db.schema.semester
                                /\ db.schema.idx_subjects_unique /\ db.admin # {},
                    legacy |-> ~db.schema.course /\ ~db.schema.semester,
                    flash |-> IF migrated.ok THEN {} ELSE StartupFailed]
        /\ UNCHANGED <<session, requests>>

\* The process is up: init_db has returned and app.run() serves requests.
Running == last.op # "start" /\ last.flash # StartupFailed

----------------------------------------------------------------------------
(* Requests served at the same time *)

(* The server answers each request on a thread of its own, with a connection
   of its own.  A SELECT runs outside any transaction and reads what is
   committed; the first INSERT/UPDATE/DELETE of a handler opens the
   transaction and takes the write lock of the database file, which the
   handler keeps up to its commit or to close_connection.  So the statements
   a handler writes with are one step, and the handlers that read before they
   write take two: what they have read may be out of date when they write.
   The handlers with a single write statement after no read of the same
   table (add_student, attendance, assign_task_to_student, subjects, tasks)
   are the one-step actions above. *)

Serve(t, request) == requests' = [requests EXCEPT !.thread[t] = request]

\* edit_student up to its check: login_required, the required fields, and
\* the SELECT for another student with the usn or the email.
edit_student_select(t, id, f) ==
    LET usn        == strip(f.usn)
        name       == strip(f.name)
        email      == strip(f.email)
        class_     == strip(f.class)
        department == strip(f.department)
        req        == [op |-> "edit_student", id |-> id, usn |-> usn, name |-> name,
                       email |-> email, class |-> class_, department |-> department]
    IN  /\ requests.thread[t] = Idle
        /\ IF ~login_required
           THEN /\ last' = RedirectLogin("edit_student")
                /\ UNCHANGED <<db, session, requests>>
           ELSE IF usn = <<>> \/ name = <<>> \/ email = <<>> \/ class_ = <<>>
                   \/ department = <<>>
                THEN /\ last' = req @@
                                [flash |-> {"All fields except phone and parent details are required."}]
                     /\ UNCHANGED <<db, session, requests>>
                ELSE IF OtherStudentWith(db, usn, email, id) # {}
                     THEN /\ last' = req @@
                                     [flash |-> {"USN or Email already in use by another student."}]
                          /\ UNCHANGED <<db, session, requests>>
                     ELSE /\ Serve(t, [pc |-> "edit_student", req |-> req])
                          /\ UNCHANGED <<db, session, last>>

\* edit_student from its UPDATE on: the statement, the commit and the answer.
edit_student_update(t) ==
    /\ requests.thread[t].pc = "edit_student"
    /\ LET req == requests.thread[t].req
           r   == UpdateStudent(db, req.id, req.usn, req.name, req.email, req.class,
                                req.department)
       IN  IF r.ok
           THEN /\ last' = req @@ [flash |-> {"Student updated successfully."}]
                /\ db' = close_connection(commit(r.tx), r.tx)
           ELSE /\ last' = req @@ [flash |-> InternalServerError]
                /\ db' = close_connection(db, r.tx)
    /\ Serve(t, Idle)
    /\ UNCHANGED session

\* edit_subject up to its check.
edit_subject_select(t, id, f) ==
    LET name   == strip(f.name)
        course == strip(f.course)
        req    == [op |-> "edit_subject", id |-> id, name |-> name, course |-> course,
                   semester |-> f.semester]
    IN  /\ requests.thread[t] = Idle
        /\ IF ~login_required
           THEN /\ last' = RedirectLogin("edit_subject")
                /\ UNCHANGED <<db, session, requests>>
           ELSE IF name = <<>> \/ course = <<>> \/ f.semester = <<>>
                THEN /\ last' = req @@
                          [flash |-> {"Subject name, course, and semester are required."}]
                     /\ UNCHANGED <<db, session, requests>>
                ELSE IF OtherSubjectWith(db, name, course, f.semester, id) # {}
                     THEN /\ last' = req @@
                               [flash |-> {"Subject with this name, course, and semester already exists."}]
                          /\ UNCHANGED <<db, session, requests>>
                     ELSE /\ Serve(t, [pc |-> "edit_subject", req |-> req])
                          /\ UNCHANGED <<db, session, last>>

\* edit_subject from its UPDATE on.
edit_subject_update(t) ==
    /\ requests.thread[t].pc = "edit_subject"
    /\ LET req == requests.thread[t].req
           r   == UpdateSubject(db, req.id, req.name, req.course, req.semester)
       IN  IF r.ok
           THEN /\ last' = req @@ [flash |-> {"Subject updated successfully."}]
                /\ db' = close_connection(commit(r.tx), r.tx)
           ELSE /\ last' = req @@ [flash |-> InternalServerError]
                /\ db' = close_connection(db, r.tx)
    /\ Serve(t, Idle)
    /\ UNCHANGED session

\* update_task_assignments up to the SELECT of the students assigned now.
update_task_assignments_select(t, task_id, student_ids) ==
    /\ requests.thread[t] = Idle
    /\ IF ~login_required
       THEN /\ last' = RedirectLogin("update_task_assignments")
            /\ UNCHANGED <<db, session, requests>>
       ELSE IF \E s \in Elements(student_ids) : ~IsNumber(s)
            THEN /\ last' = [op |-> "update_task_assignments", task_id |-> task_id,
                             selected |-> {}, again |-> FALSE,
                             flash |-> InternalServerError]
                 /\ UNCHANGED <<db, session, requests>>
            ELSE /\ Serve(t, [pc |-> "update_task_assignments", task_id |-> task_id,
                              selected |-> IntList(student_ids),
                              current |-> AssignedIds(db, task_id)])
                 /\ UNCHANGED <<db, session, last>>

\* update_task_assignments from its first INSERT on: the two loops over the
\* lists computed from what was read, the commit and the answer.
update_task_assignments_write(t) ==
    /\ requests.thread[t].pc = "update_task_assignments"
    /\ LET task_id    == requests.thread[t].task_id
           selected   == requests.thread[t].selected
           current    == requests.thread[t].current
           assigned   == AssignLoop([tx |-> db, count |-> 0], task_id,
                                    ToAssign(selected, current), 1)
           unassigned == UnassignLoop([tx |-> assigned.tx, count |-> 0], task_id,
                                      ToUnassign(selected, current), 1)
       IN  /\ last' =
                [op |-> "update_task_assignments", task_id |-> task_id,
                 selected |-> Elements(selected),
                 again |-> /\ last.op = "update_task_assignments"
                           /\ last.flash # InternalServerError
                           /\ last.task_id = task_id
                           /\ last.selected = Elements(selected),
                 assign_count |-> assigned.count,
                 unassign_count |-> unassigned.count,
                 flash |->
                   (IF assigned.count > 0 THEN {"Task assigned to new student(s)."}
                    ELSE {})
                   \cup (IF unassigned.count > 0
                         THEN {"Task unassigned from student(s)."} ELSE {})
                   \cup (IF assigned.count = 0 /\ unassigned.count = 0
                         THEN {"No changes made to assignments."} ELSE {})]
           /\ db' = close_connection(commit(unassigned.tx), unassigned.tx)
    /\ Serve(t, Idle)
    /\ UNCHANGED session

\* bulk_attendance up to the SELECT of the students to mark.
bulk_attendance_select(t, date, class_filter, dept_filter, form) ==
    /\ requests.thread[t] = Idle
    /\ IF ~login_required
       THEN /\ last' = RedirectLogin("bulk_attendance")
            /\ UNCHANGED <<db, session, requests>>
       ELSE /\ Serve(t, [pc |-> "bulk_attendance", date |-> date,
                         class_filter |-> class_filter, dept_filter |-> dept_filter,
                         form |-> form,
                         student_ids |-> SelectStudentIds(db, class_filter, dept_filter)])
            /\ UNCHANGED <<db, session, last>>

\* bulk_attendance from its first INSERT on.
bulk_attendance_insert(t) ==
    /\ requests.thread[t].pc = "bulk_attendance"
    /\ LET req  == requests.thread[t]
           done == BulkAttendanceLoop([tx |-> db, success_count |-> 0, exists_count |-> 0],
                                      req.student_ids, 1, req.date, req.form)
       IN  /\ last' = [op |-> "bulk_attendance", date |-> req.date,
                       class_filter |-> req.class_filter, dept_filter |-> req.dept_filter,
                       success_count |-> done.success_count,
                       exists_count |-> done.exists_count,
                       flash |-> {"Bulk attendance marked"}]
           /\ db' = close_connection(commit(done.tx), done.tx)
    /\ Serve(t, Idle)
    /\ UNCHANGED session

----------------------------------------------------------------------------
(* Inputs *)

Usernames == {"admin", "guest"}
Passwords == {"admin", "wrong"}

StudentIds == 1 .. (MaxStudents + 1)

StudentForms ==
    [usn        : {<<"U1">>, <<WS, "U1">>, <<"U2">>, <<WS>>},
     name       : {<<"Ann">>, <<"Bob">>},
     email      : {<<"e1">>, <<"e2", WS>>},
     class      : {<<"A">>},
     department : {<<"CS">>}]

LoginStep == \E u \in Usernames, p \in Passwords : login(u, p)

Dates == {"d1", "d2"}
Statuses == {"Present", "Absent", "Late"}
ClassFilters == {All, <<"A">>}
DeptFilters == {<<>>, <<"CS">>}
RollIds == {1, 2}

\* The two students of the attendance runs: they differ in class and department.
ClassForms ==
    {[usn |-> <<"U1">>, name |-> <<"Ann">>, email |-> <<"e1">>,
      class |-> <<"A">>, department |-> <<"CS">>],
     [usn |-> <<"U2">>, name |-> <<"Bob">>, email |-> <<"e2">>,
      class |-> <<"B">>, department |-> <<"EE">>]}

(* Students only: create, edit, delete *)
NextStudents ==
    \/ LoginStep
    \/ logout
    \/ \E f \in StudentForms : add_student(f) /\ db'.seq.students <= MaxStudents
    \/ \E id \in StudentIds, f \in StudentForms : edit_student(id, f)
    \/ \E id \in StudentIds : delete_student(id)

SpecStudents == Init /\ [][NextStudents]_vars

(* Attendance: single and bulk marking, for students present or not yet *)
NextAttendance ==
    \/ LoginStep
    \/ logout
    \/ \E f \in ClassForms : add_student(f)
    \/ \E id \in RollIds, d \in Dates, st \in Statuses : attendance(id, d, st)
    \/ \E d \in Dates, cf \in ClassFilters, df \in DeptFilters,
          form \in [RollIds -> Statuses \cup {NoField}] :
            bulk_attendance(d, cf, df, form)

SpecAttendance == Init /\ [][NextAttendance]_vars

(* Tasks: creation, single assignment and reconciliation *)
TaskIds == 1 .. MaxTasks
Titles == {<<"HW">>, <<WS>>}
DueDates == {"d1", ""}
FormIds == {"1", "2", "x"}

RECURSIVE Lists(_, _)
Lists(S, n) == IF n = 0 THEN {<<>>}
               ELSE Lists(S, n - 1) \cup {Append(l, x) : l \in Lists(S, n - 1), x \in S}

NextTasks ==
    \/ LoginStep
    \/ logout
    \/ \E f \in ClassForms : add_student(f)
    \/ \E t \in Titles, d \in DueDates, a \in BOOLEAN :
          tasks(t, d, a) /\ db'.seq.tasks <= MaxTasks
    \/ \E t \in TaskIds, sid \in RollIds : assign_task_to_student(t, sid)
    \/ \E t \in TaskIds, l \in Lists(FormIds, MaxSelected) :
          update_task_assignments(t, l)

SpecTasks == Init /\ [][NextTasks]_vars

(* A student's rows in every child table, and the student's deletion *)
NextCascade ==
    \/ LoginStep
    \/ logout
    \/ \E f \in ClassForms : add_student(f) /\ db'.seq.students <= MaxStudents
    \/ \E id \in RollIds : attendance(id, "d1", "Present")
    \/ \E id \in RollIds : assign_task_to_student(1, id)
    \/ \E id \in RollIds, m \in {"7", ""} :
          marks(id, 1, <<"mid">>, m, "9") /\ db'.seq.marks <= MaxMarks
    \/ \E id \in RollIds : delete_student(id)

SpecCascade == Init /\ [][NextCascade]_vars

(* Subjects: create, edit, delete *)
SubjectIds == 1 .. MaxSubjects
SubjectForms ==
    [name     : {<<"Algebra">>, <<"Algebra", WS>>, <<"Logic">>},
     course   : {<<"BSc">>, <<WS>>},
     semester : {<<"1">>, <<"0", "1">>, <<"2">>, <<>>}]

NextSubjects ==
    \/ LoginStep
    \/ logout
    \/ \E f \in SubjectForms : subjects(f) /\ db'.seq.subjects <= MaxSubjects
    \/ \E id \in SubjectIds, f \in SubjectForms : edit_subject(id, f)
    \/ \E id \in SubjectIds : delete_subject(id)

SpecSubjects == Init /\ [][NextSubjects]_vars

(* Marks: bulk entry with lists of any lengths *)
MarkIds == 1 .. MaxMarks

\* student_ids lists: 1, 2, 1, ... up to each length, and 2 throughout.
BulkStudentIds ==
    {[i \in 1 .. n |-> IF i % 2 = 1 THEN "1" ELSE "2"] : n \in 0 .. MaxRows}
    \cup {[i \in 1 .. MaxRows |-> "2"]}

\* marks_obtained lists: 7 throughout, or the last entry left empty.
BulkMarksObtained ==
    {[i \in 1 .. n |-> "7"] : n \in 0 .. MaxRows}
    \cup {[i \in 1 .. n |-> IF i = n THEN "" ELSE "7"] : n \in 1 .. MaxRows}

\* max_marks lists: 9 throughout, or the first entry left empty.
BulkMaxMarks ==
    {[i \in 1 .. n |-> "9"] : n \in 0 .. MaxRows}
    \cup {[i \in 1 .. n |-> IF i = 1 THEN "" ELSE "9"] : n \in 1 .. MaxRows}

NextMarks ==
    \/ LoginStep
    \/ logout
    \/ \E sids \in BulkStudentIds, mo \in BulkMarksObtained, mm \in BulkMaxMarks :
          bulk_marks("1", <<"mid", WS>>, sids, mo, mm) /\ db'.seq.marks <= MaxMarks
    \/ \E sub \in {"", "1"}, ex \in {<<WS>>, <<"mid">>} :
          bulk_marks(sub, ex, <<"1">>, <<"7">>, <<"9">>) /\ db'.seq.marks <= MaxMarks

SpecMarks == Init /\ [][NextMarks]_vars

(* Reports: attendance marked one day after the other, and the two reports *)
ReportDates == {"d1", "d2", "d3", "d4"}

NextReports ==
    \/ LoginStep
    \/ logout
    \/ \E f \in ClassForms : add_student(f) /\ db'.seq.students <= MaxStudents
    \/ \E d \in ReportDates, st \in {"Present", "Absent"} : attendance(1, d, st)
    \/ attendance(2, "d1", "Present")
    \/ \E st \in {NoField, "Absent"} :
          bulk_attendance("d1", All, <<>>, [id \in 1 .. MaxStudents |-> st])
    \/ delete_student(2)
    \/ \E id \in RollIds : student_report(id)
    \/ \E cf \in ClassFilters, df \in DeptFilters : reports(cf, df)

SpecReports == Init /\ [][NextReports]_vars

(* Start-up on a new file, on an older file and again on its own file *)
LegacyNames == {<<"Maths">>, <<"Physics">>}

\* The subjects rows of an older file: names as they come, the course column
\* there or not, the semester column not.
LegacySubjects(has_course) ==
    UNION {{{[id |-> i, name |-> names[i],
              course |-> IF has_course THEN courses[i] ELSE NoValue,
              semester |-> NoValue] : i \in 1 .. n}
            : names \in [1 .. n -> LegacyNames],
              courses \in [1 .. n -> {<<"BCom">>, NoValue}]}
           : n \in 0 .. MaxSubjects}

\* A file without tables (CREATE TABLE IF NOT EXISTS then creates the current
\* empty tables) and files of an older version.
DatabaseFiles ==
    {[init_db EXCEPT !.admin = {},
                     !.schema = [course |-> TRUE, semester |-> TRUE,
                                 idx_subjects_unique |-> FALSE]]}
    \cup {[init_db EXCEPT !.admin = a, !.subjects = rows,
                          !.seq.subjects = Cardinality(rows),
                          !.schema = [course |-> c, semester |-> FALSE,
                                      idx_subjects_unique |-> FALSE]]
          : <<a, c, rows>> \in
              UNION {{<<a, c, rows>> : a \in {{}, init_db.admin}, rows \in LegacySubjects(c)}
                     : c \in BOOLEAN}}

InitStartup ==
    /\ db \in DatabaseFiles
    /\ session = EmptySession
    /\ last = [op |-> "start", flash |-> {}]
    /\ requests = NoRequests

StartupForms ==
    [name : {<<"Maths">>}, course : {<<"BCom">>, <<"BSc">>}, semester : {<<"1">>}]

NextStartup ==
    \/ main
    \/ Running /\ LoginStep
    \/ Running /\ logout
    \/ Running /\ \E f \in StartupForms : subjects(f) /\ db'.seq.subjects <= MaxSubjects
    \/ Running /\ \E id \in SubjectIds : delete_subject(id)

SpecStartup == InitStartup /\ [][NextStartup]_vars

(* Parents and children: creation of each, deletion of a task, a subject, a mark *)
NextIntegrity ==
    \/ LoginStep
    \/ logout
    \/ \E f \in {g \in ClassForms : g.usn = <<"U1">>} : add_student(f)
    \/ tasks(<<"HW">>, "d1", TRUE) /\ db'.seq.tasks <= MaxTasks
    \/ \E t \in TaskIds : assign_task_to_student(t, 1)
    \/ \E f \in StartupForms : subjects(f) /\ f.course = <<"BCom">>
                               /\ db'.seq.subjects <= MaxSubjects
    \/ marks(1, 1, <<"mid">>, "7", "9") /\ db'.seq.marks <= MaxMarks
    \/ \E id \in TaskIds : delete_task(id)
    \/ \E id \in SubjectIds : delete_subject(id)
    \/ \E id \in MarkIds : delete_mark(id)

SpecIntegrity == Init /\ [][NextIntegrity]_vars

(* Progress of assignments: assign, complete, reset, bulk-complete, reconcile *)
Today == {"d1", "d2"}

NextProgress ==
    \/ LoginStep
    \/ logout
    \/ \E t \in TaskIds, sid \in RollIds : assign_task_to_student(t, sid)
    \/ \E t \in TaskIds, sid \in RollIds, today \in Today : complete_task(t, sid, today)
    \/ \E t \in TaskIds, sid \in RollIds : reset_task(t, sid)
    \/ \E t \in TaskIds, today \in Today : bulk_complete_task(t, today)
    \/ \E t \in TaskIds : update_task_assignments(t, <<>>)

SpecProgress == Init /\ [][NextProgress]_vars

(* Every guarded handler, with and without a login *)
Created(tx) == tx.seq.students + tx.seq.tasks + tx.seq.subjects + tx.seq.marks

GateForm == CHOOSE f \in ClassForms : f.usn = <<"U1">>
GateSubject == [name |-> <<"Maths">>, course |-> <<"BCom">>, semester |-> <<"1">>]

NextGate ==
    \/ LoginStep
    \/ logout
    \/ add_student(GateForm) /\ Created(db') <= MaxCreated
    \/ edit_student(1, GateForm)
    \/ delete_student(1)
    \/ attendance(1, "d1", "Present")
    \/ bulk_attendance("d1", All, <<>>, [id \in RollIds |-> NoField])
    \/ tasks(<<"HW">>, "d1", TRUE) /\ Created(db') <= MaxCreated
    \/ assign_task_to_student(1, 1)
    \/ update_task_assignments(1, <<>>)
    \/ complete_task(1, 1, "d1")
    \/ reset_task(1, 1)
    \/ bulk_complete_task(1, "d1")
    \/ delete_task(1)
    \/ subjects(GateSubject) /\ Created(db') <= MaxCreated
    \/ edit_subject(1, GateSubject)
    \/ delete_subject(1)
    \/ marks(1, 1, <<"mid">>, "7", "9") /\ Created(db') <= MaxCreated
    \/ bulk_marks("1", <<"mid">>, <<"1">>, <<"7">>, <<"9">>) /\ Created(db') <= MaxCreated
    \/ edit_mark(1, 1, 1, <<"mid">>, "7", "9")
    \/ delete_mark(1)
    \/ student_report(1)
    \/ reports(All, <<>>)

SpecGate == Init /\ [][NextGate]_vars

(* Requests of several threads on one table: create and edit of students, create
   and edit of subjects, single and bulk marking, assignment and reconciliation *)
Workloads == {"students", "subjects", "attendance", "assignments"}

Workload(names) == requests.workload \in names

RaceForms ==
    ClassForms \cup {[usn |-> <<"U3">>, name |-> <<"Cy">>, email |-> <<"e3">>,
                      class |-> <<"A">>, department |-> <<"CS">>]}

RaceLists == {<<>>, <<"1">>}

InitConcurrent ==
    /\ db = init_db
    /\ session = EmptySession
    /\ last = [op |-> "start", flash |-> {}]
    /\ requests \in {[NoRequests EXCEPT !.workload = w] : w \in Workloads}

NextConcurrent ==
    \/ LoginStep
    \/ /\ Workload({"students", "attendance"})
       /\ \E f \in ClassForms : add_student(f) /\ db'.seq.students <= MaxStudents
    \/ /\ Workload({"students"})
       /\ \E t \in Threads, id \in RollIds, f \in RaceForms : edit_student_select(t, id, f)
    \/ \E t \in Threads : edit_student_update(t)
    \/ /\ Workload({"subjects"})
       /\ \E f \in StartupForms : subjects(f) /\ db'.seq.subjects <= MaxSubjects
    \/ /\ Workload({"subjects"})
       /\ \E t \in Threads, id \in RollIds, f \in StartupForms : edit_subject_select(t, id, f)
    \/ \E t \in Threads : edit_subject_update(t)
    \/ /\ Workload({"attendance"})
       /\ \E id \in RollIds, st \in {"Present", "Absent"} : attendance(id, "d1", st)
    \/ /\ Workload({"attendance"})
       /\ \E t \in Threads, st \in {NoField, "Late"} :
             bulk_attendance_select(t, "d1", All, <<>>, [id \in 1 .. MaxStudents |-> st])
    \/ \E t \in Threads : bulk_attendance_insert(t)
    \/ /\ Workload({"assignments"})
       /\ add_student(GateForm) /\ db'.seq.students <= MaxStudents
    \/ /\ Workload({"assignments"})
       /\ tasks(<<"HW">>, "d1", TRUE) /\ db'.seq.tasks <= MaxTasks
    \/ /\ Workload({"assignments"})
       /\ \E sid \in RollIds : assign_task_to_student(1, sid)
    \/ /\ Workload({"assignments"})
       /\ \E t \in Threads, l \in RaceLists : update_task_assignments_select(t, 1, l)
    \/ \E t \in Threads : update_task_assignments_write(t)

SpecConcurrent == InitConcurrent /\ [][NextConcurrent]_vars

(* Reconciliation over assignments in progress: assign, complete, reconcile *)
DesiredLists == {<<>>, <<"1">>, <<"2">>, <<"1", "2">>}

NextReconcile ==
    \/ LoginStep
    \/ logout
    \/ \E t \in TaskIds, sid \in RollIds : assign_task_to_student(t, sid)
    \/ \E t \in TaskIds, sid \in RollIds : complete_task(t, sid, "d1")
    \/ \E t \in TaskIds, l \in DesiredLists : update_task_assignments(t, l)

SpecReconcile == Init /\ [][NextReconcile]_vars

----------------------------------------------------------------------------
(* Claims *)

RequiredPresent(r) ==
    /\ r.usn # <<>> /\ r.name # <<>> /\ r.email # <<>>
    /\ r.class # <<>> /\ r.department # <<>>

StudentRow(r, id) ==
    [id |-> id, usn |-> r.usn, name |-> r.name, email |-> r.email,
     class |-> r.class, department |-> r.department]

C8_Rejected ==
    (/\ last'.op = "add_student"
     /\ RequiredPresent(last')
     /\ \E s \in db.students : s.usn = last'.usn \/ s.email = last'.email)
    => (/\ db' = db
        /\ last'.flash = {"USN or Email already exists."})

C8_Unique ==
    \A s, t \in db.students : (s.usn = t.usn \/ s.email = t.email) => s = t

\* C8: a create with the usn or the email of an existing student is answered
\* "USN or Email already exists." and leaves the store as it was, and no two
\* student rows ever share a usn or an email.
C8_DuplicateStudentRejected == [][C8_Rejected]_vars /\ []C8_Unique

\* C8 witness: a create was rejected for its email alone, the student that
\* holds the email still being there.
C8_Witness ==
    /\ last.op = "add_student"
    /\ last.flash = {"USN or Email already exists."}
    /\ \E s \in db.students : s.email = last.email /\ s.usn # last.usn

C9_Rejected ==
    (/\ last'.op = "edit_student"
     /\ RequiredPresent(last')
     /\ \E s \in db.students :
            s.id # last'.id /\ (s.usn = last'.usn \/ s.email = last'.email))
    => (/\ db' = db
        /\ last'.flash = {"USN or Email already in use by another student."})

C9_OwnKeys ==
    (/\ last'.op = "edit_student"
     /\ RequiredPresent(last')
     /\ \E s \in db.students :
            s.id = last'.id /\ s.usn = last'.usn /\ s.email = last'.email)
    => (/\ last'.flash = {"Student updated successfully."}
        /\ db' = [db EXCEPT !.students =
                    {s \in @ : s.id # last'.id} \cup {StudentRow(last', last'.id)}])

\* C9: an edit to a usn or an email that another student holds is answered
\* "already in use" and changes nothing; an edit that keeps the student's own
\* usn and email succeeds and changes that student's row only.
C9_EditStudentDuplicate == [][C9_Rejected /\ C9_OwnKeys]_vars

\* C9 witness: an edit of an existing student was rejected because another
\* student holds the usn it asked for.
C9_Witness ==
    /\ last.op = "edit_student"
    /\ last.flash = {"USN or Email already in use by another student."}
    /\ \E s, t \in db.students : s.id = last.id /\ t.id # last.id /\ t.usn = last.usn

\* The attendance rows of one (student, date) pair, and of one date.
RecordsFor(tx, student_id, date) ==
    BagCardinality([r \in {x \in BagToSet(tx.attendance) :
                              x.student_id = student_id /\ x.date = date}
                      |-> tx.attendance[r]])

RecordsOn(tx, date) ==
    BagCardinality([r \in {x \in BagToSet(tx.attendance) : x.date = date}
                      |-> tx.attendance[r]])

C3_Step ==
    (/\ last'.op = "attendance"
     /\ RecordsFor(db, last'.student_id, last'.date) > 0)
    => (/\ last'.flash = {"Attendance for this student on this date already exists."}
        /\ db' = db
        /\ RecordsFor(db', last'.student_id, last'.date) = 1)

\* C3: a single mark for a (student, date) pair that has a record is answered
\* "already exists", whatever its status, and leaves the store as it was, with
\* exactly one record for the pair.
C3_SecondMarkRejected == [][C3_Step]_vars

\* C3 witness: a mark was rejected while the pair's record carries the other
\* status.
C3_Witness ==
    /\ last.op = "attendance"
    /\ last.flash = {"Attendance for this student on this date already exists."}
    /\ last.status = "Absent"
    /\ \E r \in BagToSet(db.attendance) :
          r.student_id = last.student_id /\ r.date = last.date /\ r.status = "Present"

\* The students a bulk request resolves to (N of them), and those of them
\* with a record on the date (K of them).
Resolved(tx, r) == {s.id : s \in {t \in tx.students :
                      /\ r.class_filter \notin {<<>>, All} => t.class = r.class_filter
                      /\ r.dept_filter \notin {<<>>, All} => t.department = r.dept_filter}}

AlreadyMarked(tx, r) == {id \in Resolved(tx, r) : RecordsFor(tx, id, r.date) > 0}

C4_Step ==
    last'.op = "bulk_attendance"
    => (/\ last'.success_count =
             Cardinality(Resolved(db, last')) - Cardinality(AlreadyMarked(db, last'))
        /\ last'.exists_count = Cardinality(AlreadyMarked(db, last')))

\* C4: a bulk request that resolves to N students, K of them marked on the
\* date, reports N - K new records and K that already existed, whatever the
\* filter and the statuses sent.
C4_BulkCounts == [][C4_Step]_vars

Max(a, b) == IF a >= b THEN a ELSE b

C5_OnePerStudentAndDate ==
    \A r \in BagToSet(db.attendance) : RecordsFor(db, r.student_id, r.date) = 1

C5_MaxStep ==
    (/\ last'.op = "bulk_attendance"
     /\ last'.exists_count = Cardinality(AlreadyMarked(db, last'))
     /\ last'.success_count + last'.exists_count = Cardinality(Resolved(db, last')))
    => RecordsOn(db', last'.date) =
           Max(Cardinality(Resolved(db, last')), RecordsOn(db, last'.date))

\* C5 as stated: after a bulk request that resolves to N students the date
\* holds max(N, prior count) records, one per student at most.  Stated for
\* the requests whose every insert went through or met an existing record
\* (the counts are N - K and K), so that no rejected status is involved.
C5_MaxOfNAndPrior == [][C5_MaxStep]_vars /\ []C5_OnePerStudentAndDate

C5_SumStep ==
    last'.op = "bulk_attendance"
    => (/\ RecordsOn(db', last'.date) = RecordsOn(db, last'.date) + last'.success_count
        /\ last'.success_count <=
             Cardinality(Resolved(db, last')) - Cardinality(AlreadyMarked(db, last'))
        /\ \A d \in Dates \ {last'.date} : RecordsOn(db', d) = RecordsOn(db, d))

\* C5 amended: after a bulk request the date holds its prior count plus the
\* number of records reported new, which is at most N - K, the other dates
\* hold what they held, and no (student, date) pair ever has two records.
C5_PriorPlusNew == [][C5_SumStep]_vars /\ []C5_OnePerStudentAndDate

\* C5 witness: a bulk request inserted a record and the date now holds more
\* records than both the N students resolved and the prior count.
C5_Witness ==
    /\ last.op = "bulk_attendance"
    /\ last.success_count > 0
    /\ RecordsOn(db, last.date) > Cardinality(Resolved(db, last))

C1_TaskKept ==
    (/\ last.op = "tasks"
     /\ last.title # <<>>
     /\ last.due_date # "")
    => \E t \in db.tasks :
          t.id = last.task_id /\ t.title = last.title /\ t.due_date = last.due_date

\* C1: after a task-creation request with a title and a due date, the task
\* row it inserted is in the store, with assign-to-all and without.
C1_TaskRowCommitted == C1_TaskKept

\* The students a task is assigned to.
Assigned(tx, task_id) ==
    {r.student_id : r \in {x \in BagToSet(tx.student_tasks) : x.task_id = task_id}}

\* The assignment rows of a task for a set of students.
RowsOf(tx, task_id, ids) ==
    [r \in {x \in BagToSet(tx.student_tasks) : x.task_id = task_id /\ x.student_id \in ids}
       |-> tx.student_tasks[r]]

Reconciled == last'.op = "update_task_assignments" /\ last'.flash # InternalServerError

C6_Step ==
    Reconciled =>
        LET t == last'.task_id
            D == last'.selected
            C == Assigned(db, t)
        IN  /\ Assigned(db', t) = D
            /\ db' = [db EXCEPT !.student_tasks =
                        (@ (-) RowsOf(db, t, C \ D))
                        (+) SetToBag({PendingRow(t, sid) : sid \in D \ C})]
            /\ last'.assign_count = Cardinality(D \ C)
            /\ last'.unassign_count = Cardinality(C \ D)
            /\ ("No changes made to assignments." \in last'.flash) <=> (D = C)
            /\ ("Task assigned to new student(s)." \in last'.flash) <=> (D \ C # {})
            /\ ("Task unassigned from student(s)." \in last'.flash) <=> (C \ D # {})

\* C6: reconciling task t from the assigned set C to the desired set D leaves
\* t assigned to exactly D: one Pending row is inserted for each student of
\* D - C, the rows of C - D are deleted, nothing else in the store changes,
\* the counts reported are |D - C| and |C - D|, and "no changes" is reported
\* exactly when D = C.
C6_ReconcileToDesired == [][C6_Step]_vars

\* C6 witness: a reconciliation both assigned and unassigned a student.
C6_Witness ==
    /\ last.op = "update_task_assignments"
    /\ last.flash = {"Task assigned to new student(s).", "Task unassigned from student(s)."}
    /\ last.assign_count = 1 /\ last.unassign_count = 1
    /\ Assigned(db, last.task_id) = last.selected

C7_Step ==
    (/\ Reconciled
     /\ last.op = "update_task_assignments" /\ last.flash # InternalServerError
     /\ last.task_id = last'.task_id
     /\ last.selected = last'.selected)
    => (/\ last'.assign_count = 0
        /\ last'.unassign_count = 0
        /\ db' = db)

\* C7: a reconciliation that follows one of the same task with the same desired
\* set reports zero assigned and zero unassigned and leaves the store as it was.
C7_ReconcileIdempotent == [][C7_Step]_vars

\* C7 witness: the second of two equal reconciliations with a non-empty
\* desired set has been served.
C7_Witness ==
    /\ last.op = "update_task_assignments"
    /\ last.flash = {"No changes made to assignments."}
    /\ last.again
    /\ last.selected # {}

C2_Step ==
    (/\ last'.op = "delete_student"
     /\ \E s \in db.students : s.id = last'.id)
    => (/\ \A s \in db'.students : s.id # last'.id
        /\ \A r \in BagToSet(db'.attendance) : r.student_id # last'.id
        /\ \A r \in BagToSet(db'.student_tasks) : r.student_id # last'.id
        /\ \A r \in db'.marks : r.student_id # last'.id)

\* C2: when delete_student(id) has been served for a student of the store,
\* the store holds no attendance row, no student_tasks row and no marks row
\* of student id, whatever rows the student had.
C2_DeleteStudentCascades == [][C2_Step]_vars

SameTriple(s, r) ==
    /\ s.name = r.name /\ s.course = r.course
    /\ s.semester = IntegerAffinity(r.semester)

SubjectRequiredPresent(r) == r.name # <<>> /\ r.course # <<>> /\ r.semester # <<>>

DuplicateSubject == {"Subject with this name, course, and semester already exists."}

C10_CreateStep ==
    (last'.op = "subjects" /\ SubjectRequiredPresent(last'))
    => IF \E s \in db.subjects : SameTriple(s, last')
       THEN db' = db /\ last'.flash = DuplicateSubject
       ELSE /\ last'.flash = {"Subject added successfully."}
            /\ \E s \in db'.subjects : s.id \notin {t.id : t \in db.subjects}
                                        /\ SameTriple(s, last')
                                        /\ db'.subjects = db.subjects \cup {s}

C10_EditStep ==
    (last'.op = "edit_subject" /\ SubjectRequiredPresent(last'))
    => IF \E s \in db.subjects : s.id # last'.id /\ SameTriple(s, last')
       THEN db' = db /\ last'.flash = DuplicateSubject
       ELSE /\ last'.flash = {"Subject updated successfully."}
            /\ \A s \in db.subjects : s.id # last'.id => s \in db'.subjects
            /\ \A s \in db'.subjects : s.id = last'.id => SameTriple(s, last')
            /\ {s.id : s \in db'.subjects} = {s.id : s \in db.subjects}

C10_Unique ==
    \A s, t \in db.subjects :
        (s.name = t.name /\ s.course = t.course /\ s.semester = t.semester) => s = t

\* C10: creating a subject with, or editing one into, the (name, course,
\* semester) of another subject is answered "already exists" and changes
\* nothing; a create or an edit with a triple no other subject holds, one that
\* differs in the semester alone included, goes through and leaves the other
\* subjects as they were; and no two subjects ever share their triple.
C10_SubjectTripleUnique == [][C10_CreateStep /\ C10_EditStep]_vars /\ []C10_Unique

\* C10 witness: a create was rejected as a duplicate while the same name and
\* course stand in the store under two semesters.
C10_Witness ==
    /\ last.op = "subjects"
    /\ last.flash = DuplicateSubject
    /\ \E s, t \in db.subjects :
          /\ SameTriple(s, last)
          /\ t.name = s.name /\ t.course = s.course /\ t.semester # s.semester

\* The positions of student_ids at which both scores exist and are non-empty.
ScoredPositions(r) ==
    {i \in 1 .. Len(r.student_ids) :
        /\ i <= Len(r.marks_obtained_list) /\ r.marks_obtained_list[i] # ""
        /\ i <= Len(r.max_marks_list) /\ r.max_marks_list[i] # ""}

\* The row a bulk marks request inserts for position i, the k-th it inserts.
BulkRow(tx, r, i, k) ==
    [id |-> tx.seq.marks + k,
     student_id |-> int(r.student_ids[i]), subject_id |-> int(r.subject_id),
     exam_type |-> r.exam_type,
     marks_obtained |-> int(r.marks_obtained_list[i]),
     max_marks |-> int(r.max_marks_list[i])]

C11_Step ==
    (last'.op = "bulk_marks" /\ last'.subject_id # "" /\ last'.exam_type # <<>>)
    => LET P == ScoredPositions(last')
           rows == {BulkRow(db, last', i, Cardinality({j \in P : j <= i})) : i \in P}
       IN  /\ Cardinality(rows) = Cardinality(P)
           /\ rows \cap db.marks = {}
           /\ db' = [db EXCEPT !.marks = @ \cup rows,
                               !.seq.marks = @ + Cardinality(P)]
           /\ last'.success_count = Cardinality(P)

\* C11: a bulk marks request with a subject and an exam type inserts one marks
\* row for each position of student_ids at which marks_obtained and max_marks
\* both have a non-empty entry, whatever the lengths of the three lists, inserts
\* no other row, changes nothing else, and reports the number of rows inserted.
C11_BulkMarksPositions == [][C11_Step]_vars

\* C11 witness: a request with two student ids and fewer marks_obtained
\* entries than student ids inserted one row and reported one.
C11_Witness ==
    /\ last.op = "bulk_marks"
    /\ Len(last.student_ids) = 2
    /\ Len(last.marks_obtained_list) = 1
    /\ Len(last.max_marks_list) = 2
    /\ last.success_count = 1
    /\ \E r \in db.marks : r.id = db.seq.marks /\ r.student_id = int(last.student_ids[1])

\* The attendance records of a student, and those with a given status,
\* counted from the store.
DaysOf(id) == Cardinality({r \in BagToSet(db.attendance) : r.student_id = id})
DaysWith(id, status) ==
    Cardinality({r \in BagToSet(db.attendance) : r.student_id = id /\ r.status = status})

\* p hundredths of a percent is present * 100 / total exactly.
ExactPercent(p, present, total) == p * total = present * 10000

\* p hundredths of a percent is present * 100 / total rounded to two decimals.
RoundedPercent(p, present, total) ==
    LET d == p * total - present * 10000
    IN  2 * d <= total /\ 2 * d >= -total

C12_Counts(total, present, absent, id) ==
    /\ total = DaysOf(id)
    /\ present = DaysWith(id, "Present")
    /\ absent = DaysWith(id, "Absent")
    /\ total = present + absent

C12_ExactStudent ==
    (last.op = "student_report" /\ last.flash = {})
    => /\ C12_Counts(last.total_days, last.present, last.absent, last.student_id)
       /\ IF last.total_days = 0 THEN last.attendance_percent = 0
          ELSE ExactPercent(last.attendance_percent, last.present, last.total_days)

C12_ExactClass ==
    last.op = "reports"
    => \A row \in last.report :
          /\ C12_Counts(row.total, row.present, row.absent, row.id)
          /\ IF row.total = 0 THEN row.percent = 0
             ELSE ExactPercent(row.percent, row.present, row.total)

\* C12 as stated: both reports show total = present + absent for a student,
\* 0 percent when the total is 0, and otherwise present * 100 / total itself.
C12_PercentExact == C12_ExactStudent /\ C12_ExactClass

C12_RoundedStudent ==
    (last.op = "student_report" /\ last.flash = {})
    => /\ C12_Counts(last.total_days, last.present, last.absent, last.student_id)
       /\ IF last.total_days = 0 THEN last.attendance_percent = 0
          ELSE RoundedPercent(last.attendance_percent, last.present, last.total_days)
       /\ (last.present = 3 /\ last.absent = 1) => last.attendance_percent = 7500

C12_RoundedClass ==
    last.op = "reports"
    => /\ \A row \in last.report :
             /\ C12_Counts(row.total, row.present, row.absent, row.id)
             /\ IF row.total = 0 THEN row.percent = 0
                ELSE RoundedPercent(row.percent, row.present, row.total)
             /\ (row.present = 3 /\ row.absent = 1) => row.percent = 7500
       /\ {row.id : row \in last.report} = Resolved(db, last)

\* C12 amended: both reports show, for a student, total = present + absent
\* (the records of the store counted), 0 percent when the total is 0, and
\* otherwise present * 100 / total rounded to two decimals (75.00 for 3
\* present and 1 absent); the class report has one such row for each student
\* its filters select.
C12_PercentRounded == C12_RoundedStudent /\ C12_RoundedClass

\* C12 witness: a class report shows one student with 3 present, 1 absent and
\* 75.00 percent, and another without any record at 0 percent.
C12_Witness ==
    /\ last.op = "reports"
    /\ \E a, b \in last.report :
          /\ a.present = 3 /\ a.absent = 1 /\ a.percent = 7500
          /\ b.total = 0 /\ b.percent = 0

AdminSeeded(tx) ==
    /\ Cardinality(tx.admin) = 1
    /\ \A a \in tx.admin : a.username = "admin"

C13_SeedStep ==
    last'.op = "init_db"
    => /\ AdminSeeded(db')
       /\ db.admin # {} => db'.admin = db.admin
       /\ last'.current => (db' = db /\ last'.flash = {})

C13_RequestStep == (last'.op # "init_db" /\ AdminSeeded(db)) => db'.admin = db.admin

C13_OneAdmin == last.op # "start" => AdminSeeded(db)

\* C13: every run of init_db leaves exactly one admin row, username 'admin':
\* it seeds the row when the table is empty and keeps the row that is there
\* otherwise; no request changes the admin table; and a run on a file that
\* holds the current schema changes nothing in the store.
C13_InitIdempotent == [][C13_SeedStep /\ C13_RequestStep]_vars /\ []C13_OneAdmin

\* C13 witness: init_db has run again on the file of a served application,
\* which holds a subject created through a request.
C13_Witness ==
    /\ last.op = "init_db"
    /\ last.current
    /\ \E s \in db.subjects : s.course = <<"BSc">>
    /\ AdminSeeded(db)

C14_Step ==
    (last'.op = "init_db" /\ last'.legacy)
    => /\ last'.flash = {}
       /\ db'.schema.idx_subjects_unique
       /\ db'.subjects = {[s EXCEPT !.course = <<"BCom">>, !.semester = <<"1">>]
                          : s \in db.subjects}

\* C14: migration of a file whose subjects table has neither course nor
\* semester succeeds: every row there gets course 'BCom' and semester 1 and
\* the unique index is created, whatever names the rows hold.
C14_MigrationSucceeds == [][C14_Step]_vars

\* Every child row refers to a parent row of the store.
NoOrphans(tx) ==
    /\ \A r \in BagToSet(tx.attendance) : \E s \in tx.students : s.id = r.student_id
    /\ \A r \in BagToSet(tx.student_tasks) :
          /\ \E s \in tx.students : s.id = r.student_id
          /\ \E t \in tx.tasks : t.id = r.task_id
    /\ \A r \in tx.marks :
          /\ \E s \in tx.students : s.id = r.student_id
          /\ \E s \in tx.subjects : s.id = r.subject_id

C15_DeleteStep ==
    /\ last'.op = "delete_task"
         => \A r \in BagToSet(db'.student_tasks) : r.task_id # last'.id
    /\ last'.op = "delete_subject"
         => \A r \in db'.marks : r.subject_id # last'.id

\* C15: every attendance, student_tasks and marks row refers to a student, a
\* task and a subject of the store, in every state; after a task is deleted no
\* assignment row of it is left and after a subject is deleted no marks row
\* of it is left.
C15_ReferentialIntegrity == []NoOrphans(db) /\ [][C15_DeleteStep]_vars

\* The assignment rows of task t and student s.
RowsFor(tx, t, s) ==
    {r \in BagToSet(tx.student_tasks) : r.task_id = t /\ r.student_id = s}

\* The store is as before but for the rows of (t, s), which are now rows.
OnlyRowChanged(t, s, rows) ==
    /\ RowsFor(db', t, s) = rows
    /\ BagToSet(db'.student_tasks) \ RowsFor(db', t, s)
         = BagToSet(db.student_tasks) \ RowsFor(db, t, s)
    /\ BagCardinality(db'.student_tasks) = BagCardinality(db.student_tasks)
    /\ db' = [db EXCEPT !.student_tasks = db'.student_tasks]

C16_DateIffCompleted ==
    \A r \in BagToSet(db.student_tasks) :
        /\ r.status \in {"Pending", "Completed"}
        /\ (r.completed_date # NULL) <=> (r.status = "Completed")

C16_AssignStep ==
    (last'.op = "assign_task_to_student" /\ last'.flash = {"Task assigned to student."})
    => /\ RowsFor(db, last'.task_id, last'.student_id) = {}
       /\ db' = [db EXCEPT !.student_tasks =
                   @ (+) SetToBag({PendingRow(last'.task_id, last'.student_id)})]

C16_CompleteStep ==
    last'.op = "complete_task"
    => OnlyRowChanged(last'.task_id, last'.student_id,
           IF RowsFor(db, last'.task_id, last'.student_id) = {} THEN {}
           ELSE {[PendingRow(last'.task_id, last'.student_id)
                    EXCEPT !.status = "Completed", !.completed_date = last'.today]})

C16_ResetStep ==
    last'.op = "reset_task"
    => OnlyRowChanged(last'.task_id, last'.student_id,
           IF RowsFor(db, last'.task_id, last'.student_id) = {} THEN {}
           ELSE {PendingRow(last'.task_id, last'.student_id)})

\* C16: an assignment row has a completed_date exactly when its status is
\* Completed, in every state.  A new assignment is Pending without a date;
\* mark-complete makes the row Completed with the date of the day; reset makes
\* it Pending without a date, which is the row a new assignment has, so that
\* complete and then reset give the initial row back; each changes that row only.
C16_CompletedDate ==
    /\ []C16_DateIffCompleted
    /\ [][C16_AssignStep /\ C16_CompleteStep /\ C16_ResetStep]_vars

\* C16 witness: a Completed row was reset and is the row of a new assignment
\* again, next to a row that is still Completed.
C16_Witness ==
    /\ last.op = "reset_task"
    /\ last.was_completed
    /\ RowsFor(db, last.task_id, last.student_id)
         = {PendingRow(last.task_id, last.student_id)}
    /\ \E r \in BagToSet(db.student_tasks) : r.status = "Completed"

C17_Step ==
    last'.op = "bulk_complete_task"
    => LET t == last'.task_id
       IN  /\ \A r \in BagToSet(db'.student_tasks) : r.task_id = t => r.status = "Completed"
           /\ \A s \in last'.pending :
                 RowsFor(db', t, s) = {[PendingRow(t, s) EXCEPT !.status = "Completed",
                                                        !.completed_date = last'.today]}
           /\ \A s \in RollIds \ last'.pending : RowsFor(db', t, s) = RowsFor(db, t, s)
           /\ \A u \in TaskIds \ {t}, s \in RollIds : RowsFor(db', u, s) = RowsFor(db, u, s)
           /\ BagCardinality(db'.student_tasks) = BagCardinality(db.student_tasks)
           /\ db' = [db EXCEPT !.student_tasks = db'.student_tasks]

\* C17: bulk-complete of task t makes every Pending row of t Completed with
\* the one date of the request, leaves no Pending row of t, keeps the rows of t
\* that were Completed as they were, date included, and changes no row of
\* another task and nothing else in the store.
C17_BulkComplete == [][C17_Step]_vars

\* C17 witness: a bulk-complete turned a Pending row while another row of the
\* task keeps the earlier date it was completed on and the other task still
\* has a Pending row.
C17_Witness ==
    /\ last.op = "bulk_complete_task"
    /\ last.pending # {}
    /\ \E s \in last.completed :
          \E r \in RowsFor(db, last.task_id, s) : r.completed_date # last.today
    /\ \E r \in BagToSet(db.student_tasks) :
          r.task_id # last.task_id /\ r.status = "Pending"

LoggedIn(s) == "admin_id" \in DOMAIN s

C18_Step ==
    /\ ~LoggedIn(session)
         => /\ db' = db
            /\ \/ last'.op \in {"login", "logout"}
               \/ session' = session /\ last' = RedirectLogin(last'.route)
            /\ LoggedIn(session')
                 => (last'.op = "login" /\ last'.username = "admin"
                                        /\ last'.password = "admin")
    /\ last'.op = "logout" => ~LoggedIn(session')
    /\ (last'.op = "login" /\ ~(last'.username = "admin" /\ last'.password = "admin"))
         => session' = session

\* C18: the session holds no admin login at the start and after a logout, and
\* gets one only by a login with the credentials of the admin row.  While it
\* holds none, a request to a handler of students, attendance, tasks,
\* assignments, subjects, marks or reports leaves the store as it was and is
\* answered with the redirect to login.
C18_LoginGate == ~LoggedIn(session) /\ [][C18_Step]_vars

\* C18 witness: after a logout, a request to delete the student of the store
\* was redirected to login and the student is still there.
C18_Witness ==
    /\ last = RedirectLogin("delete_student")
    /\ ~LoggedIn(session)
    /\ \E s \in db.students : s.id = 1

C19_Step ==
    \A r \in BagToSet(db.attendance), q \in BagToSet(db'.attendance) :
        (q.student_id = r.student_id /\ q.date = r.date) => q.status = r.status

\* C19: whatever request is served, a (student, date) pair that has an
\* attendance record before it and after it has the same status in both.
C19_NeverUpdatedInPlace == [][C19_Step]_vars

\* C19 witness: a bulk request that sent one status for every student met a
\* record of the date and inserted one, and the record it met still carries
\* the other status.
C19_Witness ==
    /\ last.op = "bulk_attendance"
    /\ last.exists_count = 1 /\ last.success_count = 1
    /\ \E r, q \in BagToSet(db.attendance) :
          /\ r.date = last.date /\ q.date = last.date
          /\ r.status = "Present" /\ q.status = "Absent"

\* The students with a record on a date.
MarkedOn(tx, date) == {r.student_id : r \in {x \in BagToSet(tx.attendance) : x.date = date}}

C20_Step ==
    last'.op = "bulk_attendance"
    => LET N == Resolved(db, last')
           new == MarkedOn(db', last'.date) \ MarkedOn(db, last'.date)
       IN  \* every student of the batch was tried, a failure ending nothing
           /\ last'.success_count + last'.exists_count = Cardinality(N)
           \* a student with a record is passed over and tallied
           /\ last'.exists_count >= Cardinality(AlreadyMarked(db, last'))
           \* each insert that went through is in the committed store
           /\ new \subseteq N
           /\ Cardinality(new) = last'.success_count
           /\ BagCardinality(db'.attendance)
                = BagCardinality(db.attendance) + last'.success_count
           \* and nothing that was there is gone or changed
           /\ db.attendance \sqsubseteq db'.attendance
           /\ db' = [db EXCEPT !.attendance = db'.attendance]

MarksOf(tx, r) ==
    BagCardinality([q \in {x \in BagToSet(tx.attendance) :
                              x.student_id = r.student_id /\ x.date = r.date}
                      |-> tx.attendance[q]])

AssignmentsOf(tx, r) ==
    BagCardinality([q \in {x \in BagToSet(tx.student_tasks) :
                              x.task_id = r.task_id /\ x.student_id = r.student_id}
                      |-> tx.student_tasks[q]])

C21_Unique ==
    /\ \A r \in BagToSet(db.attendance) : MarksOf(db, r) = 1
    /\ \A r \in BagToSet(db.student_tasks) : AssignmentsOf(db, r) = 1
    /\ \A s, u \in db.subjects :
          s.id # u.id => <<s.name, s.course, s.semester>> # <<u.name, u.course, u.semester>>
    /\ \A s, u \in db.students :
          s.id # u.id => s.usn # u.usn /\ s.email # u.email

\* C21: with requests served at the same time, in every order of their steps,
\* the store never holds two attendance rows of one (student, date), two
\* assignment rows of one (task, student), two subjects of one (name, course,
\* semester) or two students of one usn or one email, the checks of the edits
\* and the read of the reconciliation being steps of their own before the write.
C21_NoDuplicatesUnderInterleaving == []C21_Unique

\* C21 witness: the check of an edit passed, another request took the usn
\* before the edit wrote, and the edit was refused by the table and not by
\* the check, the student edited keeping the usn it had.
C21_Witness ==
    /\ last.op = "edit_student"
    /\ last.flash = InternalServerError
    /\ \E s, u \in db.students :
          /\ s.id = last.id /\ s.usn # last.usn
          /\ u.id # last.id /\ u.usn = last.usn

\* How many times a row is in the assignment table.
Copies(tx, r) == IF r \in BagToSet(tx.student_tasks) THEN tx.student_tasks[r] ELSE 0

C22_Step ==
    Reconciled =>
        LET t == last'.task_id
            D == last'.selected
            C == Assigned(db, t)
            rows == BagToSet(db.student_tasks) \cup BagToSet(db'.student_tasks)
        IN  /\ \A s \in C \cap D :
                  /\ RowsFor(db', t, s) = RowsFor(db, t, s)
                  /\ \A r \in RowsFor(db, t, s) : Copies(db', r) = Copies(db, r)
            /\ \A r \in rows : r.task_id # t => Copies(db', r) = Copies(db, r)

\* C22: a reconciliation of task t leaves the assignment row of every student
\* that was assigned and is desired as it was, status and completed_date
\* included, so that a Completed assignment stays Completed with its date, and
\* it leaves every assignment row of every other task as it was.
C22_ReconcileChangesOnlyDifference == [][C22_Step]_vars

\* C22 witness: a reconciliation assigned one student and unassigned none;
\* the other student of the desired set is still Completed with its date, and
\* another task has a Completed assignment of the student just assigned.
C22_Witness ==
    /\ last.op = "update_task_assignments"
    /\ last.assign_count = 1 /\ last.unassign_count = 0
    /\ last.selected = RollIds
    /\ \E s \in last.selected : \E r \in RowsFor(db, last.task_id, s) :
          r.status = "Completed" /\ r.completed_date # NULL
    /\ \E s \in last.selected :
          /\ RowsFor(db, last.task_id, s) = {PendingRow(last.task_id, s)}
          /\ \E q \in BagToSet(db.student_tasks) :
                q.task_id # last.task_id /\ q.student_id = s /\ q.status = "Completed"

====
